---------------------------- MODULE Spec2Model ----------------------------
(***************************************************************************)
(* Model of the evergreen project-configuration compiler: the selector     *)
(* language (model/project_selector.go), the translator and the matrix     *)
(* engine (model/project_parser.go, model/project_matrix.go).              *)
(*                                                                         *)
(* Strings are sequences of runes (one-character strings), so that the     *)
(* parsing of selectors, the building of variant names and the expansion   *)
(* of ${...} placeholders are computed the way the code computes them.     *)
(* Errors are modelled by their kind; "nil" is the absence of an error.    *)
(***************************************************************************)
EXTENDS Integers, Sequences, FiniteSets, TLC

VARIABLES
    pc,             \* control point of the operation under way
    items,          \* selector evaluation: the cohort handed to newTagSelectorEvaluator
    selector,       \* selector evaluation: the selector string
    results,        \* selector evaluation: what evalSelector returned
    pbv,            \* mergeAxisValue: the variant being merged into (updated in place)
    av,             \* mergeAxisValue: the axis value
    mergeErr,       \* mergeAxisValue: the error returned
    mds,            \* contain: the evaluated definitions (exclude specs)
    mv,             \* contain: the cell
    contained,      \* contain: the result
    mdef,           \* allCells: the evaluated definition
    axisCache,      \* allCells: the axes slice, one counter per axis
    carryOne,       \* allCells: the carry flag
    cells,          \* allCells: the cells found so far
    axes,           \* matrix engine: the axis declaration list
    matrices,       \* matrix engine: the matrices (their tasks are updated in place)
    cell,           \* buildMatrixVariant: the cell
    variant,        \* buildMatrixVariant: the variant returned (a pointer)
    variantErr,     \* buildMatrixVariant: the error returned
    matrixVariants, \* buildMatrixVariants: the variants returned
    errs,           \* buildMatrixVariants: the errors returned
    pp,             \* translator: the intermediate project (its variant list is appended to)
    deps,           \* evaluateDependsOn: the intermediate dependencies
    newDeps,        \* evaluateDependsOn: the dependencies returned
    depErrs,        \* evaluateDependsOn: the errors returned
    reqs,           \* evaluateRequires: the intermediate requirements
    newReqs,        \* evaluateRequires: the requirements returned
    reqErrs,        \* evaluateRequires: the errors returned
    variantTasks,   \* evaluateBVTasks: the task entries of a variant
    bvTasks,        \* evaluateBVTasks: the tasks returned
    bvTaskErrs,     \* evaluateBVTasks: the errors returned
    position,       \* UnmarshalYAML: the polymorphic position, named by its Go type
    node,           \* UnmarshalYAML: the YAML node
    decoded,        \* UnmarshalYAML: the value and error the decoding ended with
    yml,            \* projectFromYAML: the YAML document
    created,        \* projectFromYAML: what createIntermediateProject returned
    loaded,         \* projectFromYAML: the project returned (a pointer)
    loadErrs,       \* projectFromYAML: the errors returned
    translated,     \* projectFromYAML: whether translateProject was called
    proj,           \* translateProject: the project returned (a pointer)
    evalErrs        \* translateProject: the errors returned

vars == <<pc, items, selector, results, pbv, av, mergeErr, mds, mv,
          contained, mdef, axisCache, carryOne, cells, axes, matrices, cell,
          variant, variantErr, matrixVariants, errs, pp, deps, newDeps,
          depErrs, reqs, newReqs, reqErrs, variantTasks, bvTasks, bvTaskErrs,
          position, node, decoded, yml, created, loaded, loadErrs,
          translated, proj, evalErrs>>

selectorVars == <<items, selector, results>>
mergeVars == <<pbv, av, mergeErr>>
containVars == <<mds, mv, contained>>
cellVars == <<mdef, axisCache, carryOne, cells>>
declVars == <<axes, matrices>>
variantVars == <<cell, variant, variantErr>>
matrixVars == <<matrixVariants, errs>>
projectVars == <<pp>>
dependsVars == <<deps, newDeps, depErrs>>
requiresVars == <<reqs, newReqs, reqErrs>>
tasksVars == <<variantTasks, bvTasks, bvTaskErrs>>
unmarshalVars == <<position, node, decoded>>
loadVars == <<yml, created, loaded, loadErrs, translated>>
translateVars == <<proj, evalErrs>>

\* the value of the variables an operation does not use
Unused == "unused"

SelectorIdle == items = Unused /\ selector = Unused /\ results = Unused
MergeIdle == pbv = Unused /\ av = Unused /\ mergeErr = Unused
ContainIdle == mds = Unused /\ mv = Unused /\ contained = Unused
CellIdle == mdef = Unused /\ axisCache = Unused /\ carryOne = Unused /\ cells = Unused
DeclIdle == axes = Unused /\ matrices = Unused
VariantIdle == cell = Unused /\ variant = Unused /\ variantErr = Unused
MatrixIdle == matrixVariants = Unused /\ errs = Unused
ProjectIdle == pp = Unused
DependsIdle == deps = Unused /\ newDeps = Unused /\ depErrs = Unused
RequiresIdle == reqs = Unused /\ newReqs = Unused /\ reqErrs = Unused
TasksIdle == variantTasks = Unused /\ bvTasks = Unused /\ bvTaskErrs = Unused
UnmarshalIdle == position = Unused /\ node = Unused /\ decoded = Unused
LoadIdle == yml = Unused /\ created = Unused /\ loaded = Unused /\ loadErrs = Unused /\ translated = Unused
TranslateIdle == proj = Unused /\ evalErrs = Unused

\* the variables each operation leaves alone
exceptSelector == <<mergeVars, containVars, cellVars, declVars, variantVars,
                     matrixVars, projectVars, dependsVars, requiresVars, tasksVars,
                     unmarshalVars, loadVars, translateVars>>
ExceptSelectorIdle == MergeIdle /\ ContainIdle /\ CellIdle /\ DeclIdle /\ VariantIdle /\ MatrixIdle /\ ProjectIdle /\ DependsIdle /\ RequiresIdle /\ TasksIdle /\ UnmarshalIdle /\ LoadIdle /\ TranslateIdle
exceptMerge == <<selectorVars, containVars, cellVars, declVars, variantVars,
                  matrixVars, projectVars, dependsVars, requiresVars, tasksVars,
                  unmarshalVars, loadVars, translateVars>>
ExceptMergeIdle == SelectorIdle /\ ContainIdle /\ CellIdle /\ DeclIdle /\ VariantIdle /\ MatrixIdle /\ ProjectIdle /\ DependsIdle /\ RequiresIdle /\ TasksIdle /\ UnmarshalIdle /\ LoadIdle /\ TranslateIdle
exceptContain == <<selectorVars, mergeVars, cellVars, declVars, variantVars,
                    matrixVars, projectVars, dependsVars, requiresVars, tasksVars,
                    unmarshalVars, loadVars, translateVars>>
ExceptContainIdle == SelectorIdle /\ MergeIdle /\ CellIdle /\ DeclIdle /\ VariantIdle /\ MatrixIdle /\ ProjectIdle /\ DependsIdle /\ RequiresIdle /\ TasksIdle /\ UnmarshalIdle /\ LoadIdle /\ TranslateIdle
exceptCells == <<selectorVars, mergeVars, containVars, declVars, variantVars,
                  matrixVars, projectVars, dependsVars, requiresVars, tasksVars,
                  unmarshalVars, loadVars, translateVars>>
ExceptCellsIdle == SelectorIdle /\ MergeIdle /\ ContainIdle /\ DeclIdle /\ VariantIdle /\ MatrixIdle /\ ProjectIdle /\ DependsIdle /\ RequiresIdle /\ TasksIdle /\ UnmarshalIdle /\ LoadIdle /\ TranslateIdle
exceptVariant == <<selectorVars, mergeVars, containVars, cellVars, matrixVars,
                    projectVars, dependsVars, requiresVars, tasksVars, unmarshalVars,
                    loadVars, translateVars>>
ExceptVariantIdle == SelectorIdle /\ MergeIdle /\ ContainIdle /\ CellIdle /\ MatrixIdle /\ ProjectIdle /\ DependsIdle /\ RequiresIdle /\ TasksIdle /\ UnmarshalIdle /\ LoadIdle /\ TranslateIdle
exceptMatrix == <<selectorVars, mergeVars, containVars, cellVars, variantVars,
                   projectVars, dependsVars, requiresVars, tasksVars, unmarshalVars,
                   loadVars, translateVars>>
ExceptMatrixIdle == SelectorIdle /\ MergeIdle /\ ContainIdle /\ CellIdle /\ VariantIdle /\ ProjectIdle /\ DependsIdle /\ RequiresIdle /\ TasksIdle /\ UnmarshalIdle /\ LoadIdle /\ TranslateIdle
exceptDependsOn == <<selectorVars, mergeVars, containVars, cellVars, declVars,
                      variantVars, matrixVars, requiresVars, tasksVars, unmarshalVars,
                      loadVars, translateVars>>
ExceptDependsOnIdle == SelectorIdle /\ MergeIdle /\ ContainIdle /\ CellIdle /\ DeclIdle /\ VariantIdle /\ MatrixIdle /\ RequiresIdle /\ TasksIdle /\ UnmarshalIdle /\ LoadIdle /\ TranslateIdle
exceptRequires == <<selectorVars, mergeVars, containVars, cellVars, declVars,
                     variantVars, matrixVars, dependsVars, tasksVars, unmarshalVars,
                     loadVars, translateVars>>
ExceptRequiresIdle == SelectorIdle /\ MergeIdle /\ ContainIdle /\ CellIdle /\ DeclIdle /\ VariantIdle /\ MatrixIdle /\ DependsIdle /\ TasksIdle /\ UnmarshalIdle /\ LoadIdle /\ TranslateIdle
exceptBVTasks == <<selectorVars, mergeVars, containVars, cellVars, declVars,
                    variantVars, matrixVars, dependsVars, requiresVars, unmarshalVars,
                    loadVars, translateVars>>
ExceptBVTasksIdle == SelectorIdle /\ MergeIdle /\ ContainIdle /\ CellIdle /\ DeclIdle /\ VariantIdle /\ MatrixIdle /\ DependsIdle /\ RequiresIdle /\ UnmarshalIdle /\ LoadIdle /\ TranslateIdle
exceptTranslate == <<selectorVars, mergeVars, containVars, cellVars, declVars,
                      variantVars, matrixVars, dependsVars, requiresVars, tasksVars,
                      unmarshalVars, loadVars>>
ExceptTranslateIdle == SelectorIdle /\ MergeIdle /\ ContainIdle /\ CellIdle /\ DeclIdle /\ VariantIdle /\ MatrixIdle /\ DependsIdle /\ RequiresIdle /\ TasksIdle /\ UnmarshalIdle /\ LoadIdle
exceptUnmarshal == <<selectorVars, mergeVars, containVars, cellVars, declVars,
                      variantVars, matrixVars, projectVars, dependsVars, requiresVars,
                      tasksVars, loadVars, translateVars>>
ExceptUnmarshalIdle == SelectorIdle /\ MergeIdle /\ ContainIdle /\ CellIdle /\ DeclIdle /\ VariantIdle /\ MatrixIdle /\ ProjectIdle /\ DependsIdle /\ RequiresIdle /\ TasksIdle /\ LoadIdle /\ TranslateIdle
exceptLoad == <<selectorVars, mergeVars, containVars, cellVars, declVars,
                 variantVars, matrixVars, projectVars, dependsVars, requiresVars,
                 tasksVars, unmarshalVars, translateVars>>
ExceptLoadIdle == SelectorIdle /\ MergeIdle /\ ContainIdle /\ CellIdle /\ DeclIdle /\ VariantIdle /\ MatrixIdle /\ ProjectIdle /\ DependsIdle /\ RequiresIdle /\ TasksIdle /\ UnmarshalIdle /\ TranslateIdle

(***************************************************************************)
(* Generic helpers on sequences and strings                                *)
(***************************************************************************)
Range(s) == {s[i] : i \in DOMAIN s}

NoDuplicates(s) == \A i, j \in DOMAIN s : s[i] = s[j] => i = j

RECURSIVE Concat(_)
Concat(ss) == IF ss = <<>> THEN <<>> ELSE Head(ss) \o Concat(Tail(ss))

\* the absence of an error
Nil == "nil"

\* util.SliceContains
SliceContains(slice, elem) == \E i \in DOMAIN slice : slice[i] = elem

\* util.StringSliceIntersection: the elements of b that are in a, in b's order
StringSliceIntersection(a, b) == SelectSeq(b, LAMBDA s : SliceContains(a, s))

\* util.UniqueStrings: first occurrences, in order
RECURSIVE UniqueStrings(_)
UniqueStrings(slice) ==
    IF slice = <<>> THEN <<>>
    ELSE LET init == UniqueStrings(SubSeq(slice, 1, Len(slice) - 1))
             last == slice[Len(slice)]
         IN  IF SliceContains(init, last) THEN init ELSE Append(init, last)

\* strings.IndexAny: 0-based index of the first rune of s that is in chars, or -1
IndexAny(s, chars) ==
    IF \E i \in DOMAIN s : s[i] \in chars
    THEN (CHOOSE i \in DOMAIN s : s[i] \in chars /\ \A j \in 1..(i - 1) : s[j] \notin chars) - 1
    ELSE -1

WhiteSpace == {" "}

\* strings.Fields: the maximal runs of non-whitespace runes
RECURSIVE Fields(_)
Fields(s) ==
    IF s = <<>> THEN <<>>
    ELSE IF Head(s) \in WhiteSpace THEN Fields(Tail(s))
    ELSE LET stop == IF \E i \in DOMAIN s : s[i] \in WhiteSpace
                     THEN CHOOSE i \in DOMAIN s :
                              s[i] \in WhiteSpace /\ \A j \in 1..(i - 1) : s[j] \notin WhiteSpace
                     ELSE Len(s) + 1
         IN  <<SubSeq(s, 1, stop - 1)>> \o Fields(SubSeq(s, stop, Len(s)))

(***************************************************************************)
(* Selector language                                                       *)
(***************************************************************************)
SelectAll == <<"*">>
InvalidCriterionRunes == {"!", "."}

\* stringToCriterion: strips one leading '!' and then one leading '.'
stringToCriterion(s) ==
    LET negated == Len(s) > 0 /\ s[1] = "!"
        s1      == IF negated THEN Tail(s) ELSE s
        tagged  == Len(s1) > 0 /\ s1[1] = "."
        s2      == IF tagged THEN Tail(s1) ELSE s1
    IN  [name |-> s2, tagged |-> tagged, negated |-> negated]

\* ParseSelector: one criterion per whitespace-delimited field
ParseSelector(s) ==
    LET critStrings == Fields(s)
    IN  [i \in DOMAIN critStrings |-> stringToCriterion(critStrings[i])]

\* the bug: the all-selector may be tagged or negated
ValidateStarMutant(sc) ==
    IF sc.name = <<>> THEN "name is empty"
    ELSE IF IndexAny(sc.name, InvalidCriterionRunes) = 0 THEN "name starts with invalid character"
    ELSE Nil

\* selectCriterion.Validate
Validate(sc) ==
    IF sc.name = <<>> THEN "name is empty"
    ELSE IF IndexAny(sc.name, InvalidCriterionRunes) = 0 THEN "name starts with invalid character"
    ELSE IF sc.name = SelectAll /\ sc.tagged THEN "cannot use . with *"
    ELSE IF sc.name = SelectAll /\ sc.negated THEN "cannot use ! with *"
    ELSE Nil

\* the flattened (item index, tag) pairs of a cohort, in cohort order
RECURSIVE TagPairs(_, _)
TagPairs(selectees, i) ==
    IF i > Len(selectees) THEN <<>>
    ELSE [k \in DOMAIN selectees[i].tags |-> <<i, selectees[i].tags[k]>>]
         \o TagPairs(selectees, i + 1)

\* newTagSelectorEvaluator: items, and the byName and byTag caches
\* (an item is cached by its index; a later item of the same name wins byName)
newTagSelectorEvaluator(selectees) ==
    LET names == {selectees[i].name : i \in DOMAIN selectees}
        tags  == UNION {Range(selectees[i].tags) : i \in DOMAIN selectees}
        pairs == TagPairs(selectees, 1)
    IN  [items  |-> selectees,
         byName |-> [n \in names |->
                        CHOOSE i \in DOMAIN selectees :
                            /\ selectees[i].name = n
                            /\ \A j \in DOMAIN selectees : selectees[j].name = n => j <= i],
         byTag  |-> [t \in tags |->
                        LET hits == SelectSeq(pairs, LAMBDA p : p[2] = t)
                        IN  [k \in DOMAIN hits |-> hits[k][1]]]]

ByTag(tse, tag) == IF tag \in DOMAIN tse.byTag THEN tse.byTag[tag] ELSE <<>>

ItemNames(tse) == [i \in DOMAIN tse.items |-> tse.items[i].name]

EvalOk(names) == [names |-> names, err |-> Nil]
EvalErr(kind) == [names |-> <<>>, err |-> kind]

\* tagSelectorEvaluator.evalCriterion
evalCriterionNegTagMutant(tse, sc) ==
    IF Validate(sc) # Nil THEN EvalErr("criterion is invalid")
    ELSE IF sc.name = SelectAll THEN EvalOk(ItemNames(tse))
    ELSE IF ~sc.tagged /\ ~sc.negated THEN
        IF sc.name \notin DOMAIN tse.byName THEN EvalErr("nothing named")
        ELSE EvalOk(<<tse.items[tse.byName[sc.name]].name>>)
    ELSE IF sc.tagged /\ ~sc.negated THEN
        IF Len(ByTag(tse, sc.name)) = 0 THEN EvalErr("nothing has the tag")
        ELSE EvalOk([k \in DOMAIN ByTag(tse, sc.name) |-> tse.items[ByTag(tse, sc.name)[k]].name])
    ELSE IF ~sc.tagged /\ sc.negated THEN
        IF sc.name \notin DOMAIN tse.byName THEN EvalErr("nothing named")
        ELSE EvalOk(SelectSeq(ItemNames(tse), LAMBDA n : n # sc.name))
    ELSE
        \* the bug: a negated tag that nothing carries selects everything
        LET illegalItems == {tse.items[i].name : i \in Range(ByTag(tse, sc.name))}
        IN  EvalOk(SelectSeq(ItemNames(tse), LAMBDA n : n \notin illegalItems))

evalCriterion(tse, sc) ==
    IF Validate(sc) # Nil THEN EvalErr("criterion is invalid")
    ELSE IF sc.name = SelectAll THEN EvalOk(ItemNames(tse))
    ELSE IF ~sc.tagged /\ ~sc.negated THEN
        IF sc.name \notin DOMAIN tse.byName THEN EvalErr("nothing named")
        ELSE EvalOk(<<tse.items[tse.byName[sc.name]].name>>)
    ELSE IF sc.tagged /\ ~sc.negated THEN
        IF Len(ByTag(tse, sc.name)) = 0 THEN EvalErr("nothing has the tag")
        ELSE EvalOk([k \in DOMAIN ByTag(tse, sc.name) |-> tse.items[ByTag(tse, sc.name)[k]].name])
    ELSE IF ~sc.tagged /\ sc.negated THEN
        IF sc.name \notin DOMAIN tse.byName THEN EvalErr("nothing named")
        ELSE EvalOk(SelectSeq(ItemNames(tse), LAMBDA n : n # sc.name))
    ELSE
        IF Len(ByTag(tse, sc.name)) = 0 THEN EvalErr("nothing has the tag")
        ELSE LET illegalItems == {tse.items[i].name : i \in Range(ByTag(tse, sc.name))}
             IN  EvalOk(SelectSeq(ItemNames(tse), LAMBDA n : n \notin illegalItems))

\* the bug: the names of the last criterion, not the intersection
evalSelectorLoopLastMutant(tse, s, i, acc) ==
    IF evalCriterion(tse, s[Len(s)]).err # Nil THEN EvalErr("error evaluating selector")
    ELSE IF Len(evalCriterion(tse, s[Len(s)]).names) = 0 THEN EvalErr("nothing satisfies selector")
    ELSE EvalOk(evalCriterion(tse, s[Len(s)]).names)

\* the loop of evalSelector over the criteria s[i..], with the results so far
RECURSIVE evalSelectorLoop(_, _, _, _)
evalSelectorLoop(tse, s, i, acc) ==
    IF i > Len(s) THEN
        IF Len(acc) = 0 THEN EvalErr("nothing satisfies selector") ELSE EvalOk(acc)
    ELSE LET r == evalCriterion(tse, s[i])
         IN  IF r.err # Nil THEN EvalErr("error evaluating selector")
             ELSE evalSelectorLoop(tse, s, i + 1,
                      IF i = 1 THEN r.names ELSE StringSliceIntersection(acc, r.names))

\* tagSelectorEvaluator.evalSelector
evalSelectorUnionMutant(tse, s) ==
    IF Len(s) = 0 THEN EvalErr("cannot evaluate selector with no criteria")
    ELSE LET rs == [i \in DOMAIN s |-> evalCriterion(tse, s[i])]
         IN  IF \E i \in DOMAIN s : rs[i].err # Nil THEN EvalErr("error evaluating selector")
             ELSE EvalOk(UniqueStrings(Concat([i \in DOMAIN s |-> rs[i].names])))

evalSelector(tse, s) ==
    IF Len(s) = 0 THEN EvalErr("cannot evaluate selector with no criteria")
    ELSE evalSelectorLoop(tse, s, 1, <<>>)


(***************************************************************************)
(* Expansions (command.Expansions) and the helpers built on them           *)
(***************************************************************************)
\* a result that carries a value and an error
Ok(v) == [val |-> v, err |-> Nil]
Err(v, kind) == [val |-> v, err |-> kind]

\* all the orders in which the elements of a finite set can be visited
\* (the iteration order of a Go map is unspecified)
Orderings(S) ==
    {o \in [1..Cardinality(S) -> S] : \A i, j \in 1..Cardinality(S) : o[i] = o[j] => i = j}

\* Expansions.Update: every key of newItems is put into exp
Update(exp, newItems) ==
    [k \in DOMAIN exp \cup DOMAIN newItems |->
        IF k \in DOMAIN newItems THEN newItems[k] ELSE exp[k]]

\* Expansions.Put
Put(exp, key, value) == Update(exp, [k \in {key} |-> value])

\* command.NewExpansions: a fresh map holding the given pairs
NewExpansions(initMap) == Update(<<>>, initMap)

\* Expansions.ExpandString from position i: every ${name} is replaced by the
\* value of name, or by nothing when name is not defined; a ${ that is never
\* closed is an error
RECURSIVE ExpandFrom(_, _, _)
ExpandFrom(exp, s, i) ==
    IF i > Len(s) THEN Ok(<<>>)
    ELSE IF s[i] = "$" /\ i < Len(s) /\ s[i + 1] = "{" THEN
        IF \E j \in (i + 2)..Len(s) : s[j] = "}" THEN
            LET close == CHOOSE j \in (i + 2)..Len(s) :
                             s[j] = "}" /\ \A k \in (i + 2)..(j - 1) : s[k] # "}"
                name  == SubSeq(s, i + 2, close - 1)
                value == IF name \in DOMAIN exp THEN exp[name] ELSE <<>>
                rest  == ExpandFrom(exp, s, close + 1)
            IN  IF rest.err # Nil THEN rest ELSE Ok(value \o rest.val)
        ELSE Err(<<>>, "unclosed expansion")
    ELSE LET rest == ExpandFrom(exp, s, i + 1)
         IN  IF rest.err # Nil THEN rest ELSE Ok(<<s[i]>> \o rest.val)

ExpandString(exp, s) == ExpandFrom(exp, s, 1)

\* expandStrings: nil and the first error, or every string expanded
expandStrings(strings, exp) ==
    LET rs == [i \in DOMAIN strings |-> ExpandString(exp, strings[i])]
    IN  IF \E i \in DOMAIN rs : rs[i].err # Nil
        THEN Err(<<>>, "unclosed expansion")
        ELSE Ok([i \in DOMAIN rs |-> rs[i].val])

\* expandExpansions: keys and values are both expanded. Keys that expand to
\* the same string overwrite one another in map iteration order, so every
\* one of them can be the one that stays: the set of possible results.
expandExpansions(in, exp) ==
    LET newK(k) == ExpandString(exp, k)
        newV(k) == ExpandString(exp, in[k])
    IN  IF \E k \in DOMAIN in : newK(k).err # Nil \/ newV(k).err # Nil
        THEN {Err(<<>>, "unclosed expansion")}
        ELSE LET keys == {newK(k).val : k \in DOMAIN in}
             IN  {Ok(f) : f \in {g \in [keys -> {newV(k).val : k \in DOMAIN in}] :
                                   \A nk \in keys : \E k \in DOMAIN in :
                                       newK(k).val = nk /\ newV(k).val = g[nk]}}

\* a one-rune string
S(c) == <<c>>

\* a parserBV with every field at its zero value
ZeroBV ==
    [Name |-> <<>>, DisplayName |-> <<>>, Expansions |-> <<>>, Tags |-> <<>>,
     Modules |-> <<>>, Disabled |-> FALSE, Push |-> FALSE, BatchTime |-> <<>>,
     Stepback |-> <<>>, RunOn |-> <<>>, Tasks |-> <<>>,
     matrixId |-> <<>>, matrixVal |-> <<>>, matrixRules |-> <<>>]

\* an axisValue with every field at its zero value; a nil pointer is <<>>,
\* a pointer to v is <<v>>
ZeroAxisValue ==
    [Id |-> <<>>, DisplayName |-> <<>>, Variables |-> <<>>, RunOn |-> <<>>,
     Tags |-> <<>>, Modules |-> <<>>, BatchTime |-> <<>>, Stepback |-> <<>>]

(***************************************************************************)
(* parserBV.mergeAxisValue                                                 *)
(***************************************************************************)
\* the bug: the axis value's tags replace the variant's
mergeTagsOverwriteMutant(tags, expanded) == expanded

\* pbv.Tags = util.UniqueStrings(append(pbv.Tags, expanded...))
mergeTags(tags, expanded) == UniqueStrings(tags \o expanded)

\* The variant is updated in place, so an error leaves the earlier steps
\* applied. Each step takes the variant and the error so far.

\* the variables step: the results it can have (one, unless two variable keys
\* expand to the same key)
mergeVariables(bv, axv) ==
    IF DOMAIN axv.Variables # {}
    THEN {IF e.err # Nil THEN Err(bv, "expanding variables")
          ELSE Ok([bv EXCEPT !.Expansions = Update(bv.Expansions, e.val)]) :
              e \in expandExpansions(axv.Variables, bv.Expansions)}
    ELSE {Ok(bv)}

withTags(bv, tagsR) ==
    IF tagsR.err # Nil THEN Err(bv, "expanding tags")
    ELSE Ok([bv EXCEPT !.Tags = mergeTags(bv.Tags, tagsR.val)])

mergeTagsStep(st, axv) ==
    IF st.err # Nil \/ Len(axv.Tags) = 0 THEN st
    ELSE withTags(st.val, expandStrings(axv.Tags, st.val.Expansions))

withRunOn(bv, runR) ==
    [val |-> [bv EXCEPT !.RunOn = runR.val],
     err |-> IF runR.err # Nil THEN "expanding run_on" ELSE Nil]

mergeRunOnStep(st, axv) ==
    IF st.err # Nil \/ Len(axv.RunOn) = 0 THEN st
    ELSE withRunOn(st.val, expandStrings(axv.RunOn, st.val.Expansions))

withModules(bv, modR) ==
    [val |-> [bv EXCEPT !.Modules = modR.val],
     err |-> IF modR.err # Nil THEN "expanding modules" ELSE Nil]

mergeModulesStep(st, axv) ==
    IF st.err # Nil \/ Len(axv.Modules) = 0 THEN st
    ELSE withModules(st.val, expandStrings(axv.Modules, st.val.Expansions))

mergeStepbackBatchTime(st, axv) ==
    IF st.err # Nil THEN st
    ELSE Ok([st.val EXCEPT !.Stepback = IF axv.Stepback # <<>> THEN axv.Stepback ELSE @,
                           !.BatchTime = IF axv.BatchTime # <<>> THEN axv.BatchTime ELSE @])

\* the steps after the variables: tags, run_on, modules, stepback, batchtime
mergeAfterVariables(st, axv) ==
    mergeStepbackBatchTime(mergeModulesStep(mergeRunOnStep(mergeTagsStep(st, axv), axv), axv), axv)

\* the bug: tags, run_on and modules are expanded against the map as it was
\* before the variables were merged
withStaleMap(bv, st, r) ==
    IF st.err # Nil THEN st ELSE [r EXCEPT !.val.Expansions = st.val.Expansions]

mergeAxisValueStaleMapMutant(bv, axv) ==
    {withStaleMap(bv, st, mergeAfterVariables(Ok(bv), axv)) : st \in mergeVariables(bv, axv)}

\* mergeAxisValue: the set of results the call can have
mergeAxisValue(bv, axv) ==
    {mergeAfterVariables(st, axv) : st \in mergeVariables(bv, axv)}

(***************************************************************************)
(* Matrix definitions: cells and containment                               *)
(***************************************************************************)
\* matrixDefinition.contains: every axis of the cell is a key of the
\* definition, and the cell's value is in the definition's list for it
containsIgnoreMissingMutant(def, c) ==
    \A k \in DOMAIN c : k \in DOMAIN def => SliceContains(def[k], c[k])

containsSomeAxisMutant(def, c) ==
    \E k \in DOMAIN c : k \in DOMAIN def /\ SliceContains(def[k], c[k])

contains(def, c) ==
    \A k \in DOMAIN c : k \in DOMAIN def /\ SliceContains(def[k], c[k])

containEveryMutant(defs, c) == \A i \in DOMAIN defs : contains(defs[i], c)

\* matrixDefinitions.contain: some definition contains the cell
contain(defs, c) == \E i \in DOMAIN defs : contains(defs[i], c)

\* the inner loop of allCells from axis i on: the counters are advanced while
\* the carry lasts, and the cell c takes each axis's current value
RECURSIVE odometer(_, _, _, _)
odometer(cache, carry, c, i) ==
    IF i > Len(cache) THEN [axes |-> cache, carryOne |-> carry, c |-> c]
    ELSE LET count  == IF carry THEN (cache[i].Count + 1) % Len(cache[i].Vals)
                       ELSE cache[i].Count
             carry1 == carry /\ count = 0
             cache1 == [cache EXCEPT ![i].Count = count]
         IN  odometer(cache1, carry1,
                      Update(c, [k \in {cache[i].Id} |-> cache[i].Vals[count + 1]]), i + 1)

\* the outer loop of allCells, run to its end
RECURSIVE allCellsLoop(_, _, _)
allCellsLoop(cache, carry, found) ==
    LET o == odometer(cache, carry, <<>>, 1)
    IN  IF o.carryOne THEN found
        ELSE allCellsLoop(o.axes, TRUE, Append(found, o.c))

axisCacheStartAtOneMutant(def, ord) ==
    [i \in DOMAIN ord |-> [Id |-> ord[i], Vals |-> def[ord[i]], Count |-> 1 % Len(def[ord[i]])]]

\* the axes slice allCells builds when it visits the definition's axes in order ord
axisCacheOf(def, ord) == [i \in DOMAIN ord |-> [Id |-> ord[i], Vals |-> def[ord[i]], Count |-> 0]]

\* matrixDefinition.allCells: the results it can have, one per iteration order
\* of the definition's axes; it panics on an axis without values
allCells(def) ==
    IF DOMAIN def = {} THEN {Ok(<<>>)}
    ELSE IF \E a \in DOMAIN def : Len(def[a]) = 0 THEN {Err(<<>>, "panic")}
    ELSE {Ok(allCellsLoop(axisCacheOf(def, ord), FALSE, <<>>)) : ord \in Orderings(DOMAIN def)}

(***************************************************************************)
(* Matrix engine: evaluating definitions, building the variants            *)
(***************************************************************************)
\* an error of the matrix engine or of the translator: its kind, and the
\* matrix, the cell or the selector source its message names
Error(kind, matrix, c, src) == [kind |-> kind, matrix |-> matrix, cell |-> c, src |-> src]

\* NewAxisSelectorEvaluator: one tag evaluator per axis id, over the values
\* of the axis (the last axis declared under an id is the one that stays)
NewAxisSelectorEvaluator(axisList) ==
    [id \in {axisList[i].Id : i \in DOMAIN axisList} |->
        LET i == CHOOSE j \in DOMAIN axisList :
                     /\ axisList[j].Id = id
                     /\ \A k \in DOMAIN axisList : axisList[k].Id = id => k <= j
        IN  newTagSelectorEvaluator(
                [j \in DOMAIN axisList[i].Values |->
                    [name |-> axisList[i].Values[j].Id, tags |-> axisList[i].Values[j].Tags]])]

\* axisSelectorEvaluator.evalSelector
axisEvalSelector(ase, axis, s) ==
    IF axis \notin DOMAIN ase THEN EvalErr("axis does not exist")
    ELSE evalSelector(ase[axis], s)

\* evaluateAxisTags: the errors of the selectors that fail, and the ids the
\* others select, without duplicates, in the iteration order of a map
evaluateAxisTags(ase, axis, selectors) ==
    LET rs   == [i \in DOMAIN selectors |->
                    axisEvalSelector(ase, axis, ParseSelector(selectors[i]))]
        bad  == SelectSeq([i \in DOMAIN selectors |-> i], LAMBDA i : rs[i].err # Nil)
        all  == UNION {Range(rs[i].names) : i \in {j \in DOMAIN rs : rs[j].err = Nil}}
    IN  {[val |-> out, errs |-> [k \in DOMAIN bad |-> Error(rs[bad[k]].err, <<>>, <<>>, selectors[bad[k]])]] :
            out \in Orderings(all)}

\* matrixDefinition.evalutedCopy: the axes are visited in map order; an axis
\* with a failing selector is left out of the copy
evalutedCopy(def, ase) ==
    LET per(a)  == evaluateAxisTags(ase, a, def[a])
        errsOf(a) == (CHOOSE r \in per(a) : TRUE).errs
        good    == {a \in DOMAIN def : Len(errsOf(a)) = 0}
        outs    == UNION {{r.val : r \in per(a)} : a \in good}
        copies  == {cpy \in [good -> outs] : \A a \in good : cpy[a] \in {r.val : r \in per(a)}}
    IN  {[val |-> cpy, errs |-> Concat([i \in DOMAIN ord |-> errsOf(ord[i])])] :
            cpy \in copies, ord \in Orderings(DOMAIN def)}

\* matrixDefinitions.evaluatedCopies
RECURSIVE evaluatedCopies(_, _)
evaluatedCopies(defs, ase) ==
    IF defs = <<>> THEN {[val |-> <<>>, errs |-> <<>>]}
    ELSE {[val |-> <<h.val>> \o t.val, errs |-> h.errs \o t.errs] :
            h \in evalutedCopy(Head(defs), ase), t \in evaluatedCopies(Tail(defs), ase)}

\* matrixAxis.find: the first value of the axis with the id
find(ma, id) ==
    IF \E j \in DOMAIN ma.Values : ma.Values[j].Id = id
    THEN Ok(ma.Values[CHOOSE j \in DOMAIN ma.Values :
                /\ ma.Values[j].Id = id
                /\ \A k \in DOMAIN ma.Values : ma.Values[k].Id = id => j <= k])
    ELSE Err(ZeroAxisValue, "axis does not contain value")

\* a TaskSelector, and the result of expanding one: the new selector, the
\* error, and the selector that was passed in as the call leaves it
TaskSelector(name, var) == [Name |-> name, Variant |-> var]
Expanded3(val, err, ts) == [val |-> val, err |-> err, ts |-> ts]

\* expandTaskSelector, matrix sub-definition: rs are its expanded lists
withMatrixSelector(sel, newTS, rs) ==
    IF \E a \in DOMAIN rs : rs[a].err # Nil
    THEN Expanded3(newTS, "expanding variant", sel)
    ELSE Expanded3(newTS, Nil,
             [sel EXCEPT !.Variant[1].matrixSelector = [a \in DOMAIN rs |-> rs[a].val]])

\* expandTaskSelector, string selector: r is its expansion
withStringSelector(sel, newTS, r) ==
    Expanded3(newTS, IF r.err # Nil THEN "expanding variant" ELSE Nil,
              [sel EXCEPT !.Variant[1].stringSelector = r.val])

\* expandTaskSelector after the name: nameR is the expanded name
withName(sel, exp, nameR) ==
    IF nameR.err # Nil THEN Expanded3(TaskSelector(<<>>, <<>>), "expanding name", sel)
    ELSE IF sel.Variant = <<>> THEN Expanded3(TaskSelector(nameR.val, <<>>), Nil, sel)
    ELSE IF DOMAIN sel.Variant[1].matrixSelector # {}
    THEN withMatrixSelector(sel, TaskSelector(nameR.val, <<>>),
             [a \in DOMAIN sel.Variant[1].matrixSelector |->
                 expandStrings(sel.Variant[1].matrixSelector[a], exp)])
    ELSE withStringSelector(sel, TaskSelector(nameR.val, <<>>),
             ExpandString(exp, sel.Variant[1].stringSelector))

\* expandTaskSelector: the new selector has the expanded name and no variant;
\* the expanded variant selector is written through the pointer into the
\* selector that was passed in
expandTaskSelector(sel, exp) == withName(sel, exp, ExpandString(exp, sel.Name))

\* what a loop over a list of the task returns: the new list, the error, and
\* the list that was passed in as the loop leaves it
Looped(val, err, tmpl) == [val |-> val, err |-> err, tmpl |-> tmpl]

\* one entry of the depends_on loop: st is its expanded status, r its
\* expanded selector (not looked at when the status fails); the entry of the
\* list passed in gets the variant that expandTaskSelector wrote
withDependency(tmpl, i, acc, st, r) ==
    IF st.err # Nil THEN Looped(<<>>, "expanding depends_on status", tmpl)
    ELSE IF r.err # Nil
    THEN Looped(<<>>, "expanding depends_on", [tmpl EXCEPT ![i].Variant = r.ts.Variant])
    ELSE Looped(Append(acc, [tmpl[i] EXCEPT !.Name = r.val.Name,
                                            !.Variant = r.val.Variant,
                                            !.Status = st.val]),
                Nil, [tmpl EXCEPT ![i].Variant = r.ts.Variant])

\* the depends_on loop of expandParserBVTask from entry i on
RECURSIVE expandDependsOn(_, _, _)
expandDependsOn(exp, i, st) ==
    IF st.err # Nil \/ i > Len(st.tmpl) THEN st
    ELSE expandDependsOn(exp, i + 1,
             withDependency(st.tmpl, i, st.val,
                 ExpandString(exp, st.tmpl[i].Status),
                 expandTaskSelector(TaskSelector(st.tmpl[i].Name, st.tmpl[i].Variant), exp)))

\* one entry of the requires loop: r is its expanded selector
withRequirement(tmpl, i, acc, r) ==
    IF r.err # Nil THEN Looped(<<>>, "expanding requires", [tmpl EXCEPT ![i] = r.ts])
    ELSE Looped(Append(acc, r.val), Nil, [tmpl EXCEPT ![i] = r.ts])

\* the requires loop of expandParserBVTask from entry i on
RECURSIVE expandRequires(_, _, _)
expandRequires(exp, i, st) ==
    IF st.err # Nil \/ i > Len(st.tmpl) THEN st
    ELSE expandRequires(exp, i + 1,
             withRequirement(st.tmpl, i, st.val, expandTaskSelector(st.tmpl[i], exp)))

\* a parserBVTask with every field at its zero value
ZeroBVTask ==
    [Name |-> <<>>, Patchable |-> <<>>, Priority |-> 0, DependsOn |-> <<>>,
     Requires |-> <<>>, ExecTimeoutSecs |-> 0, Stepback |-> <<>>,
     Distros |-> <<>>, RunOn |-> <<>>]

\* what expandParserBVTask returns: the expanded task, the error, and the
\* task that was passed in as the call leaves it
ExpandedTask(val, err, pbvt) == [val |-> val, err |-> err, pbvt |-> pbvt]

\* expandParserBVTask from its requires loop on
withDependsOn(pbvt, exp, nameR, runR, disR, depR, reqR) ==
    IF depR.err # Nil
    THEN ExpandedTask(ZeroBVTask, depR.err, [pbvt EXCEPT !.DependsOn = depR.tmpl])
    ELSE IF reqR.err # Nil
    THEN ExpandedTask(ZeroBVTask, reqR.err,
             [pbvt EXCEPT !.DependsOn = depR.tmpl, !.Requires = reqR.tmpl])
    ELSE ExpandedTask([pbvt EXCEPT !.Name = nameR.val, !.RunOn = runR.val,
                                   !.Distros = disR.val, !.DependsOn = depR.val,
                                   !.Requires = reqR.val],
                      Nil,
                      [pbvt EXCEPT !.DependsOn = depR.tmpl, !.Requires = reqR.tmpl])

\* expandParserBVTask from its depends_on loop on
withScalars(pbvt, exp, nameR, runR, disR) ==
    IF nameR.err # Nil THEN ExpandedTask(ZeroBVTask, "expanding name", pbvt)
    ELSE IF runR.err # Nil THEN ExpandedTask(ZeroBVTask, "expanding run_on", pbvt)
    ELSE IF disR.err # Nil THEN ExpandedTask(ZeroBVTask, "expanding distros", pbvt)
    ELSE withDependsOn(pbvt, exp, nameR, runR, disR,
             expandDependsOn(exp, 1, Looped(<<>>, Nil, pbvt.DependsOn)),
             expandRequires(exp, 1, Looped(<<>>, Nil, pbvt.Requires)))

\* expandParserBVTask
expandParserBVTask(pbvt, exp) ==
    withScalars(pbvt, exp, ExpandString(exp, pbvt.Name),
                expandStrings(pbvt.RunOn, exp), expandStrings(pbvt.Distros, exp))

\* one task of the tasks loop of buildMatrixVariant: r is its expansion
withTask(tmpl, i, acc, r) ==
    IF r.err # Nil THEN Looped(<<>>, "processing task", [tmpl EXCEPT ![i] = r.pbvt])
    ELSE Looped(Append(acc, r.val), Nil, [tmpl EXCEPT ![i] = r.pbvt])

\* the tasks loop of buildMatrixVariant from task i on; st.tmpl is m.Tasks as
\* the loop leaves it
RECURSIVE expandTasks(_, _, _)
expandTasks(exp, i, st) ==
    IF st.err # Nil \/ i > Len(st.tmpl) THEN st
    ELSE expandTasks(exp, i + 1,
             withTask(st.tmpl, i, st.val, expandParserBVTask(st.tmpl[i], exp)))

\* what buildMatrixVariant returns: a pointer to the variant or nil, the
\* error, and the matrix as the call leaves it
Built(v, m) == [val |-> <<v>>, err |-> Nil, m |-> m]
NotBuilt(kind, m) == [val |-> <<>>, err |-> kind, m |-> m]

\* the axes loop of buildMatrixVariant from axis i on. st holds the variant,
\* the display-name expansions, the name buffer and usedAxes.
RECURSIVE mergeAxes(_, _, _, _)
mergeAxes(axisList, c, i, st) ==
    IF i > Len(axisList) THEN {st}
    ELSE LET a == axisList[i]
         IN  IF a.Id \notin DOMAIN c THEN mergeAxes(axisList, c, i + 1, st)
             ELSE LET used    == st.usedAxes + 1
                      axisVal == find(a, c[a.Id])
                  IN  IF axisVal.err # Nil THEN {[st EXCEPT !.err = axisVal.err]}
                      ELSE UNION {
                          IF r.err # Nil THEN {[st EXCEPT !.err = "processing axis value"]}
                          ELSE mergeAxes(axisList, c, i + 1,
                                   [v        |-> r.val,
                                    disp     |-> Put(st.disp, a.Id,
                                                     IF axisVal.val.DisplayName # <<>>
                                                     THEN axisVal.val.DisplayName
                                                     ELSE axisVal.val.Id),
                                    idBuf    |-> st.idBuf \o a.Id \o <<"~">> \o axisVal.val.Id
                                                 \o (IF used < Cardinality(DOMAIN c)
                                                     THEN <<"_">> ELSE <<>>),
                                    usedAxes |-> used,
                                    err      |-> Nil]) :
                          r \in mergeAxisValue(st.v, axisVal.val)}

\* the rules loop of buildMatrixVariant from rule i on
RECURSIVE applyRules(_, _, _, _, _)
applyRules(c, m, ase, v, i) ==
    IF i > Len(m.Rules) THEN {Built(v, m)}
    ELSE LET r == m.Rules[i]
         IN  UNION {
             IF Len(matchers.errs) > 0 THEN {NotBuilt("evaluating rules", m)}
             ELSE IF contain(matchers.val, c) THEN
                 UNION {
                     IF x.err # Nil THEN {NotBuilt("evaluating rule", m)}
                     ELSE applyRules(c, m, ase,
                              IF Len(r.Then.RemoveTasks) > 0 \/ Len(r.Then.AddTasks) > 0
                              THEN [x.val EXCEPT !.matrixRules = Append(@, r.Then)]
                              ELSE x.val,
                              i + 1) :
                     x \in IF r.Then.Set # <<>> THEN mergeAxisValue(v, r.Then.Set[1])
                           ELSE {Ok(v)}}
             ELSE applyRules(c, m, ase, v, i + 1) :
             matchers \in evaluatedCopies(r.If, ase)}

\* buildMatrixVariant from its rules loop on: t is what the tasks loop returned
withTasks(c, m, ase, v, t) ==
    IF t.err # Nil THEN {NotBuilt(t.err, [m EXCEPT !.Tasks = t.tmpl])}
    ELSE applyRules(c, [m EXCEPT !.Tasks = t.tmpl], ase,
                    [v EXCEPT !.Tasks = v.Tasks \o t.val], 1)

\* buildMatrixVariant from the matrix tags on: disp is the expanded display name
withDisplayName(c, m, ase, st, disp) ==
    IF disp.err # Nil THEN {NotBuilt("processing display name", m)}
    ELSE UNION {
        IF r.err # Nil THEN {NotBuilt("processing matrix tags", m)}
        ELSE withTasks(c, m, ase, r.val,
                 expandTasks(r.val.Expansions, 1, Looped(<<>>, Nil, m.Tasks))) :
        r \in mergeAxisValue([st.v EXCEPT !.Name = st.idBuf, !.DisplayName = disp.val],
                             [ZeroAxisValue EXCEPT !.Tags = m.Tags])}

\* buildMatrixVariant after its axes loop: name, display name, matrix tags,
\* tasks and rules
finishMatrixVariant(c, m, ase, st) ==
    IF st.err # Nil THEN {NotBuilt(st.err, m)}
    ELSE IF st.usedAxes # Cardinality(DOMAIN c) THEN {NotBuilt("cell uses undefined axes", m)}
    ELSE withDisplayName(c, m, ase, st, ExpandString(st.disp, m.DisplayName))

nameSeparatorMutant == <<"~">>

\* the separator between the matrix id and the axis-value pairs of a name
nameSeparator == <<"_", "_">>

\* buildMatrixVariant: the results the call can have
buildMatrixVariant(axisList, c, m, ase) ==
    LET v0  == [ZeroBV EXCEPT !.matrixVal = c, !.matrixId = m.Id,
                              !.Stepback = m.Stepback, !.BatchTime = m.BatchTime,
                              !.Modules = m.Modules, !.RunOn = m.RunOn,
                              !.Expansions = NewExpansions(c)]
        st0 == [v |-> v0, disp |-> <<>>, idBuf |-> m.Id \o nameSeparator,
                usedAxes |-> 0, err |-> Nil]
    IN  UNION {finishMatrixVariant(c, m, ase, st) : st \in mergeAxes(axisList, c, 1, st0)}

\* the cells loop of buildMatrixVariants for the matrix m from cell i on; the
\* matrix is updated in place by the building of its cells
RECURSIVE buildCells(_, _, _, _, _, _, _, _)
buildCells(axisList, ase, m, id, excludes, unpruned, i, st) ==
    IF i > Len(unpruned) THEN {st}
    ELSE IF contain(excludes, unpruned[i])
    THEN buildCells(axisList, ase, m, id, excludes, unpruned, i + 1, st)
    ELSE UNION {
        buildCells(axisList, ase, r.m, id, excludes, unpruned, i + 1,
            IF r.err # Nil
            THEN [st EXCEPT !.m = r.m,
                            !.errs = Append(@, Error("error building matrix cell", id,
                                                     unpruned[i], r.err))]
            ELSE [st EXCEPT !.m = r.m, !.pruned = Append(@, r.val[1])]) :
        r \in buildMatrixVariant(axisList, unpruned[i], m, ase)}

\* one iteration of the matrices loop of buildMatrixVariants, for matrix i
buildMatrix(axisList, ase, st, i) ==
    LET m == st.matrices[i]
    IN  UNION {
        IF Len(spec.errs) > 0 THEN {[st EXCEPT !.errs = @ \o spec.errs]}
        ELSE UNION {
            IF Len(excl.errs) > 0 THEN {[st EXCEPT !.errs = @ \o excl.errs]}
            ELSE UNION {
                IF unpruned.err # Nil THEN {[st EXCEPT !.panic = TRUE]}
                ELSE {[matrices |-> [st.matrices EXCEPT ![i] = b.m],
                       val      |-> st.val \o b.pruned,
                       errs     |-> IF Len(m.Exclude) > 0 /\ Len(unpruned.val) = Len(b.pruned)
                                    THEN Append(b.errs, Error("exclude field did not exclude anything",
                                                               m.Id, <<>>, <<>>))
                                    ELSE b.errs,
                       panic    |-> FALSE] :
                      b \in buildCells(axisList, ase, m, m.Id, excl.val, unpruned.val, 1,
                                       [m |-> m, pruned |-> <<>>, errs |-> st.errs])} :
                unpruned \in allCells(spec.val)} :
            excl \in evaluatedCopies(m.Exclude, ase)} :
        spec \in evalutedCopy(m.Spec, ase)}

\* the matrices loop of buildMatrixVariants from matrix i on; a panic ends it
RECURSIVE buildMatrices(_, _, _, _)
buildMatrices(axisList, ase, st, i) ==
    IF i > Len(st.matrices) \/ st.panic THEN {st}
    ELSE UNION {buildMatrices(axisList, ase, st1, i + 1) : st1 \in buildMatrix(axisList, ase, st, i)}

\* buildMatrixVariants: the results the call can have: the variants, the
\* errors, the matrices as the call leaves them, and whether it panicked
buildMatrixVariants(axisList, ase, ms) ==
    buildMatrices(axisList, ase, [matrices |-> ms, val |-> <<>>, errs |-> <<>>, panic |-> FALSE], 1)

(***************************************************************************)
(* Translator: selector evaluators over tasks and variants                 *)
(***************************************************************************)
\* the names and tags of tasks or variants, as the items of a cohort
Selectees(list) == [i \in DOMAIN list |-> [name |-> list[i].Name, tags |-> list[i].Tags]]

\* NewParserTaskSelectorEvaluator
NewParserTaskSelectorEvaluator(tasks) == newTagSelectorEvaluator(Selectees(tasks))

\* an evaluator's result with its error wrapped
wrapped(r, kind) == IF r.err # Nil THEN EvalErr(kind) ELSE r

\* taskSelectorEvaluator.evalSelector
taskEvalSelector(tse, s) == wrapped(evalSelector(tse, s), "error evaluating task selector")

\* NewVariantSelectorEvaluator: a tag evaluator over the variants, the
\* variants themselves, and the axis evaluator
NewVariantSelectorEvaluator(variants, ase) ==
    [tagEval |-> newTagSelectorEvaluator(Selectees(variants)),
     variants |-> variants,
     axisEval |-> ase]

\* the names of the variants whose cell the evaluated matrix selector contains
matrixSelected(vse, evaluated) ==
    LET hits == SelectSeq(vse.variants,
                    LAMBDA v : DOMAIN v.matrixVal # {} /\ contains(evaluated, v.matrixVal))
    IN  IF Len(hits) = 0 THEN EvalErr("variant selector returns no variants")
        ELSE EvalOk([i \in DOMAIN hits |-> hits[i].Name])

\* variantSelectorEvaluator.evalSelector: a matrix sub-definition selects the
\* matrix variants whose cells it contains, a string selector is evaluated
\* over the names and tags of the variants
variantEvalSelector(vse, vs) ==
    IF DOMAIN vs.matrixSelector # {}
    THEN {IF Len(e.errs) > 0 THEN EvalErr("errors evaluating variant selector")
          ELSE matrixSelected(vse, e.val) :
              e \in evalutedCopy(vs.matrixSelector, vse.axisEval)}
    ELSE {wrapped(evalSelector(vse.tagEval, ParseSelector(vs.stringSelector)),
                  "variant tag selector")}

(***************************************************************************)
(* Translator: dependencies, requirements, tasks, variants                 *)
(***************************************************************************)
AllDependencies == <<"*">>

\* the result of a translation step: what it emits and the errors it raises
Translated(val, errList) == [val |-> val, errs |-> errList]

\* the names a dependency selects: * is not evaluated
dependencyNamesVerbatimMutant(tse, d) == EvalOk(<<d.Name>>)

\* the bug: * is evaluated as a selector, like any other name
dependencyNamesEvaluatedMutant(tse, d) == taskEvalSelector(tse, ParseSelector(d.Name))

dependencyNames(tse, d) ==
    IF d.Name = AllDependencies THEN EvalOk(<<AllDependencies>>)
    ELSE taskEvalSelector(tse, ParseSelector(d.Name))

\* the variants a dependency or requirement selects: the empty variant when
\* it has no variant selector (the results the evaluation can have)
selectedVariants(vse, sel) ==
    IF sel.Variant = <<>> THEN {EvalOk(<<<<>>>>)}
    ELSE variantEvalSelector(vse, sel.Variant[1])

\* name x variant, the names in the outer loop
RECURSIVE pairsOf(_, _)
pairsOf(names, variants) ==
    IF names = <<>> THEN <<>>
    ELSE [k \in DOMAIN variants |-> [Variant |-> variants[k], Name |-> Head(names)]]
         \o pairsOf(Tail(names), variants)

\* the accumulators of evaluateDependsOn: newDeps, the map
\* newDepsByNameAndVariant and evalErrs
addDependencySilentMutant(st, newDep) ==
    IF <<newDep.Variant, newDep.Name>> \notin DOMAIN st.byPair
    THEN [st EXCEPT !.val = Append(@, newDep),
                    !.byPair = Put(@, <<newDep.Variant, newDep.Name>>, newDep)]
    ELSE st

\* the body of the inner loops of evaluateDependsOn
addDependency(st, newDep) ==
    IF <<newDep.Variant, newDep.Name>> \notin DOMAIN st.byPair
    THEN [st EXCEPT !.val = Append(@, newDep),
                    !.byPair = Put(@, <<newDep.Variant, newDep.Name>>, newDep)]
    ELSE IF newDep # st.byPair[<<newDep.Variant, newDep.Name>>]
    THEN [st EXCEPT !.errs = Append(@, Error("conflicting definitions of dependency",
                                            <<>>, <<>>, newDep.Name))]
    ELSE st

\* the inner loops of evaluateDependsOn for the dependency d, from pair k on
RECURSIVE addDependencies(_, _, _, _)
addDependencies(st, d, pairs, k) ==
    IF k > Len(pairs) THEN st
    ELSE addDependencies(
             addDependency(st, [Name |-> pairs[k].Name, Variant |-> pairs[k].Variant,
                                Status |-> d.Status, PatchOptional |-> d.PatchOptional]),
             d, pairs, k + 1)

\* one dependency of evaluateDependsOn: names and variants are what its
\* selectors evaluate to
withDependencySelectors(st, d, names, variants) ==
    IF names.err # Nil
    THEN [st EXCEPT !.errs = Append(@, Error(names.err, <<>>, <<>>, d.Name))]
    ELSE IF variants.err # Nil
    THEN [st EXCEPT !.errs = Append(@, Error(variants.err, <<>>, <<>>, d.Name))]
    ELSE addDependencies(st, d, pairsOf(names.names, variants.names), 1)

\* the loop of evaluateDependsOn from dependency i on: the results it can have
RECURSIVE dependsOnLoop(_, _, _, _, _)
dependsOnLoop(tse, vse, list, i, st) ==
    IF i > Len(list) THEN {Translated(st.val, st.errs)}
    ELSE UNION {
        dependsOnLoop(tse, vse, list, i + 1,
            withDependencySelectors(st, list[i], dependencyNames(tse, list[i]), variants)) :
        variants \in selectedVariants(vse, list[i])}

\* evaluateDependsOn
evaluateDependsOn(tse, vse, list) ==
    dependsOnLoop(tse, vse, list, 1, [val |-> <<>>, byPair |-> <<>>, errs |-> <<>>])

\* the bug: a requirement is added whether or not its pair is already there
addRequirementAlwaysMutant(st, newReq) ==
    [st EXCEPT !.val = Append(@, newReq),
               !.byPair = @ \cup {<<newReq.Variant, newReq.Name>>}]

\* the body of the inner loops of evaluateRequires
addRequirement(st, newReq) ==
    IF <<newReq.Variant, newReq.Name>> \notin st.byPair
    THEN [st EXCEPT !.val = Append(@, newReq),
                    !.byPair = @ \cup {<<newReq.Variant, newReq.Name>>}]
    ELSE st

RECURSIVE addRequirements(_, _, _)
addRequirements(st, pairs, k) ==
    IF k > Len(pairs) THEN st
    ELSE addRequirements(
             addRequirement(st, [Name |-> pairs[k].Name, Variant |-> pairs[k].Variant]),
             pairs, k + 1)

\* one requirement of evaluateRequires
withRequirementSelectors(st, r, names, variants) ==
    IF names.err # Nil
    THEN [st EXCEPT !.errs = Append(@, Error(names.err, <<>>, <<>>, r.Name))]
    ELSE IF variants.err # Nil
    THEN [st EXCEPT !.errs = Append(@, Error(variants.err, <<>>, <<>>, r.Name))]
    ELSE addRequirements(st, pairsOf(names.names, variants.names), 1)

RECURSIVE requiresLoop(_, _, _, _, _)
requiresLoop(tse, vse, list, i, st) ==
    IF i > Len(list) THEN {Translated(st.val, st.errs)}
    ELSE UNION {
        requiresLoop(tse, vse, list, i + 1,
            withRequirementSelectors(st, list[i],
                taskEvalSelector(tse, ParseSelector(list[i].Name)), variants)) :
        variants \in selectedVariants(vse, list[i])}

\* evaluateRequires
evaluateRequires(tse, vse, list) ==
    requiresLoop(tse, vse, list, 1, [val |-> <<>>, byPair |-> {}, errs |-> <<>>])

\* one task of evaluateTasks
translatedTask(pt, dependsOn, requires) ==
    [Name |-> pt.Name, Priority |-> pt.Priority, ExecTimeoutSecs |-> pt.ExecTimeoutSecs,
     DisableCleanup |-> pt.DisableCleanup, Commands |-> pt.Commands, Tags |-> pt.Tags,
     Stepback |-> pt.Stepback, DependsOn |-> dependsOn, Requires |-> requires]

\* the loop of evaluateTasks from task i on
RECURSIVE tasksLoop(_, _, _, _, _)
tasksLoop(tse, vse, pts, i, st) ==
    IF i > Len(pts) THEN {st}
    ELSE UNION {
        tasksLoop(tse, vse, pts, i + 1,
            Translated(Append(st.val, translatedTask(pts[i], d.val, r.val)),
                       st.errs \o d.errs \o r.errs)) :
        d \in evaluateDependsOn(tse, vse, pts[i].DependsOn),
        r \in evaluateRequires(tse, vse, pts[i].Requires)}

\* evaluateTasks
evaluateTasks(tse, vse, pts) == tasksLoop(tse, vse, pts, 1, Translated(<<>>, <<>>))

\* the bug: a task is added whether or not its name is already there
addBVTaskAlwaysMutant(st, t, moreErrs) ==
    [val |-> Append(st.val, t), byName |-> Put(st.byName, t.Name, t),
     errs |-> st.errs \o moreErrs]

\* the body of the inner loop of evaluateBVTasks, once the dependencies and
\* requirements of the new task are evaluated
addBVTask(st, t, moreErrs) ==
    IF t.Name \notin DOMAIN st.byName
    THEN [val |-> Append(st.val, t), byName |-> Put(st.byName, t.Name, t),
          errs |-> st.errs \o moreErrs]
    ELSE IF t # st.byName[t.Name]
    THEN [st EXCEPT !.errs = Append(@ \o moreErrs,
                                 Error("conflicting definitions of build variant tasks",
                                       <<>>, <<>>, t.Name))]
    ELSE [st EXCEPT !.errs = @ \o moreErrs]

translatedBVTask(pt, name, dependsOn, requires) ==
    [Name |-> name, Patchable |-> pt.Patchable, Priority |-> pt.Priority,
     ExecTimeoutSecs |-> pt.ExecTimeoutSecs, Stepback |-> pt.Stepback,
     Distros |-> pt.Distros, DependsOn |-> dependsOn, Requires |-> requires]

\* the inner loop of evaluateBVTasks for the entry pt, from name k on
RECURSIVE bvTaskNamesLoop(_, _, _, _, _, _)
bvTaskNamesLoop(tse, vse, pt, names, k, st) ==
    IF k > Len(names) THEN {st}
    ELSE UNION {
        bvTaskNamesLoop(tse, vse, pt, names, k + 1,
            addBVTask(st, translatedBVTask(pt, names[k], d.val, r.val), d.errs \o r.errs)) :
        d \in evaluateDependsOn(tse, vse, pt.DependsOn),
        r \in evaluateRequires(tse, vse, pt.Requires)}

\* one entry of evaluateBVTasks: names is what its selector evaluates to
withBVTaskNames(tse, vse, pt, names, st) ==
    IF names.err # Nil
    THEN {[st EXCEPT !.errs = Append(@, Error(names.err, <<>>, <<>>, pt.Name))]}
    ELSE bvTaskNamesLoop(tse, vse, pt, names.names, 1, st)

\* the loop of evaluateBVTasks from entry i on
RECURSIVE bvTasksLoop(_, _, _, _, _)
bvTasksLoop(tse, vse, pbvts, i, st) ==
    IF i > Len(pbvts) THEN {Translated(st.val, st.errs)}
    ELSE UNION {
        bvTasksLoop(tse, vse, pbvts, i + 1, st1) :
        st1 \in withBVTaskNames(tse, vse, pbvts[i],
                    taskEvalSelector(tse, ParseSelector(pbvts[i].Name)), st)}

\* evaluateBVTasks
evaluateBVTasks(tse, vse, pbvts) ==
    bvTasksLoop(tse, vse, pbvts, 1, [val |-> <<>>, byName |-> <<>>, errs |-> <<>>])

translatedVariant(bv, tasks) ==
    [DisplayName |-> bv.DisplayName, Name |-> bv.Name, Expansions |-> bv.Expansions,
     Modules |-> bv.Modules, Disabled |-> bv.Disabled, Push |-> bv.Push,
     BatchTime |-> bv.BatchTime, Stepback |-> bv.Stepback, RunOn |-> bv.RunOn,
     Tags |-> bv.Tags, Tasks |-> tasks]

\* the loop of evaluateBuildVariants from variant i on; errs holds what the
\* last call of evaluateBVTasks returned, evalErrs what all of them returned
RECURSIVE buildVariantsLoop(_, _, _, _, _)
buildVariantsLoop(tse, vse, pbvs, i, st) ==
    IF i > Len(pbvs) THEN {st}
    ELSE UNION {
        buildVariantsLoop(tse, vse, pbvs, i + 1,
            [val      |-> Append(st.val, translatedVariant(pbvs[i], t.val)),
             errs     |-> t.errs,
             evalErrs |-> st.evalErrs \o t.errs]) :
        t \in evaluateBVTasks(tse, vse, pbvs[i].Tasks)}

\* evaluateBuildVariants: the error list returned is errs, what the last call
\* of evaluateBVTasks returned (nil when there is no variant), not evalErrs
evaluateBuildVariants(tse, vse, pbvs) ==
    {Translated(st.val, st.errs) :
        st \in buildVariantsLoop(tse, vse, pbvs, 1,
                   [val |-> <<>>, errs |-> <<>>, evalErrs |-> <<>>])}

\* translateProject once the matrix variants are built: mvs is what
\* buildMatrixVariants returned, all the variants of the project afterwards
withMatrixVariants(project, tse, vse, mvs, all) ==
    {[proj     |-> <<[Identifier |-> project.Identifier, Tasks |-> t.val,
                      BuildVariants |-> b.val]>>,
      evalErrs |-> mvs.errs \o t.errs \o b.errs,
      pp       |-> [project EXCEPT !.BuildVariants = all, !.matrices = mvs.matrices],
      panic    |-> FALSE] :
        t \in evaluateTasks(tse, vse, project.Tasks),
        b \in evaluateBuildVariants(tse, vse, all)}

\* translateProject: the results the call can have
translateProject(project) ==
    UNION {
        IF mvs.panic
        THEN {[proj |-> <<>>, evalErrs |-> <<>>, pp |-> project, panic |-> TRUE]}
        ELSE withMatrixVariants(project,
                 NewParserTaskSelectorEvaluator(project.Tasks),
                 NewVariantSelectorEvaluator(project.BuildVariants \o mvs.val,
                     NewAxisSelectorEvaluator(project.Axes)),
                 mvs, project.BuildVariants \o mvs.val) :
        mvs \in buildMatrixVariants(project.Axes, NewAxisSelectorEvaluator(project.Axes),
                                    project.matrices)}

(***************************************************************************)
(* Selector evaluation: inputs and the operation                           *)
(***************************************************************************)
MaxItems == 2
MaxCriteria == 2

\* item names, in cohort order; the names of a cohort are distinct
NamePool == <<<<"a">>, <<"b">>, <<"c">>, <<"d">>>>

TagListPool ==
    {<<>>, <<<<"p">>>>, <<<<"q">>>>, <<<<"p">>, <<"q">>>>, <<<<"p">>, <<"p">>>>,
     <<<<"p", ".", "q">>>>}

Cohorts ==
    UNION {{[i \in 1..n |-> [name |-> NamePool[i], tags |-> tl[i]]] :
                tl \in [1..n -> TagListPool]} : n \in 0..MaxItems}

\* criterion strings: every modifier on item names, tags and the all-selector,
\* malformed ones, and names with a . or ! inside
CriterionPool ==
    {m \o n : m \in {<<>>, <<"!">>, <<".">>, <<"!", ".">>},
              n \in {<<"a">>, <<"b">>, <<"p">>, <<"*">>}}
    \cup {<<"!", "!", "a">>, <<"!">>, <<".", "!", "a">>, <<".", ".", "a">>,
          <<".", "p", ".", "q">>, <<"a", "!", "b">>}

RECURSIVE JoinFields(_)
JoinFields(fs) ==
    IF fs = <<>> THEN <<>>
    ELSE IF Len(fs) = 1 THEN fs[1]
    ELSE fs[1] \o <<" ">> \o JoinFields(Tail(fs))

SelectorPool ==
    {JoinFields(fs) : fs \in UNION {[1..n -> CriterionPool] : n \in 0..MaxCriteria}}

InitSelector ==
    /\ pc = "start"
    /\ items \in Cohorts
    /\ selector \in SelectorPool
    /\ results = EvalErr("not evaluated")
    /\ ExceptSelectorIdle

\* tse := newTagSelectorEvaluator(items); tse.evalSelector(ParseSelector(selector))
EvalSelector ==
    /\ pc = "start"
    /\ results' = evalSelector(newTagSelectorEvaluator(items), ParseSelector(selector))
    /\ pc' = "done"
    /\ UNCHANGED <<items, selector, exceptSelector>>

NextSelector == EvalSelector

SpecSelector == InitSelector /\ [][NextSelector]_vars

(***************************************************************************)
(* What a criterion means, item by item                                    *)
(***************************************************************************)
\* the criterion has the form the grammar allows
WellFormed(sc) ==
    /\ sc.name # <<>>
    /\ sc.name[1] \notin {"!", "."}
    /\ sc.name = <<"*">> => ~sc.tagged /\ ~sc.negated

\* the criterion names an item, or a tag some item carries
Resolves(sc, cohort) ==
    \/ sc.name = <<"*">>
    \/ ~sc.tagged /\ \E i \in DOMAIN cohort : cohort[i].name = sc.name
    \/ sc.tagged /\ \E i \in DOMAIN cohort : sc.name \in Range(cohort[i].tags)

Satisfies(item, sc) ==
    IF sc.name = <<"*">> THEN TRUE
    ELSE IF ~sc.tagged /\ ~sc.negated THEN item.name = sc.name
    ELSE IF sc.tagged /\ ~sc.negated THEN sc.name \in Range(item.tags)
    ELSE IF ~sc.tagged /\ sc.negated THEN item.name # sc.name
    ELSE sc.name \notin Range(item.tags)

Selected(cohort, s) ==
    {cohort[i].name : i \in {j \in DOMAIN cohort : \A k \in DOMAIN s : Satisfies(cohort[j], s[k])}}

\* a selector with criteria, all of them well-formed and resolving
AllResolve(cohort, s) ==
    /\ Len(s) > 0
    /\ \A k \in DOMAIN s : WellFormed(s[k]) /\ Resolves(s[k], cohort)

\* C1: for a selector of at least one criterion whose criteria are all
\* well-formed and all resolve, evalSelector returns exactly the names of the items that satisfy every
\* criterion (X: the item named X, .T: the items tagged T, !X: the items not
\* named X, !.T: the items not tagged T, *: every item).
C1_SelectorIsIntersection ==
    pc = "done" /\ AllResolve(items, ParseSelector(selector))
        => Range(results.names) = Selected(items, ParseSelector(selector))

\* a negated tag intersected with the all-selector and a name has been evaluated
C1_Witness ==
    /\ pc = "done"
    /\ results.err = Nil
    /\ Len(ParseSelector(selector)) = 2
    /\ \E k \in 1..2 : ParseSelector(selector)[k].tagged /\ ParseSelector(selector)[k].negated
    /\ Cardinality(Range(results.names)) < Len(items)
    /\ Range(results.names) # {}

\* C2: evalSelector never returns an empty result without an error; it returns
\* an error for a selector without criteria, for a name or a negated name that
\* no item has, for a tag or a negated tag that no item carries, and for an
\* empty intersection.
C2_EmptyIsError ==
    pc = "done" =>
        LET s == ParseSelector(selector)
        IN  /\ results.names = <<>> => results.err # Nil
            /\ Len(s) = 0 => results.err # Nil
            /\ (\E k \in DOMAIN s : WellFormed(s[k]) /\ ~Resolves(s[k], items)) => results.err # Nil
            /\ Selected(items, s) = {} => results.err # Nil

\* an empty intersection of two criteria that both resolve was reported
C2_Witness ==
    /\ pc = "done"
    /\ Len(ParseSelector(selector)) = 2
    /\ AllResolve(items, ParseSelector(selector))
    /\ Selected(items, ParseSelector(selector)) = {}
    /\ results.err = "nothing satisfies selector"

\* the selectors made of the criteria of s, in any order, each at least
\* once, and at most one criterion longer than s
Rearranged(s) ==
    {t \in UNION {[1..n -> Range(s)] : n \in 1..(Len(s) + 1)} : Range(t) = Range(s)}

\* C13: for a fixed cohort, two selectors that consist of the same criteria
\* in a different order, or that differ by repeating a criterion, both fail
\* or both succeed with the same set of names.
C13_OrderAndRepeatsIrrelevant ==
    pc = "done" =>
        \A t \in Rearranged(ParseSelector(selector)) :
            /\ (evalSelector(newTagSelectorEvaluator(items), t).err = Nil) = (results.err = Nil)
            /\ Range(evalSelector(newTagSelectorEvaluator(items), t).names) = Range(results.names)

\* a selector of two different criteria that select different items was
\* evaluated to fewer names than its last criterion selects
C13_Witness ==
    /\ pc = "done"
    /\ results.err = Nil
    /\ Len(ParseSelector(selector)) = 2
    /\ ParseSelector(selector)[1] # ParseSelector(selector)[2]
    /\ Cardinality(Rearranged(ParseSelector(selector))) > 2
    /\ Range(results.names)
           # Range(evalSelector(newTagSelectorEvaluator(items),
                                <<ParseSelector(selector)[2]>>).names)

HasPrefix(f, p) == Len(f) >= Len(p) /\ SubSeq(f, 1, Len(p)) = p

\* the criterion string has no name, or a name that begins with ! or . once
\* a leading ! and then a leading . are taken off, or is * with a modifier
Malformed(f) ==
    \/ f \in {<<"!">>, <<".">>, <<"!", ".">>}
    \/ \E p \in {<<"!", "!">>, <<".", "!">>, <<".", ".">>, <<"!", ".", "!">>, <<"!", ".", ".">>} :
           HasPrefix(f, p)
    \/ f \in {<<".", "*">>, <<"!", "*">>, <<"!", ".", "*">>}

\* C14: evaluating a selector returns an error whenever one of its criteria
\* has an empty name, a name that begins with ! or . after its modifiers, or
\* is the all-selector with a . or ! modifier.
C14_MalformedIsError ==
    pc = "done" /\ (\E f \in Range(Fields(selector)) : Malformed(f)) => results.err # Nil

\* a negated all-selector after a criterion that selects an item was an error
C14_Witness ==
    /\ pc = "done"
    /\ Len(Fields(selector)) = 2
    /\ Fields(selector)[1] = S("a")
    /\ Fields(selector)[2] = <<"!", "*">>
    /\ Len(items) = 2
    /\ results.err # Nil

\* C29: a criterion whose name has a . or a ! after its first character makes
\* the evaluation of the selector return an error
C29_InnerRunesRejected ==
    pc = "done"
    /\ (\E i \in DOMAIN ParseSelector(selector) :
            \E k \in 2..Len(ParseSelector(selector)[i].name) :
                ParseSelector(selector)[i].name[k] \in {".", "!"})
    => results.err # Nil

(***************************************************************************)
(* mergeAxisValue: inputs and the operation                                *)
(***************************************************************************)
\* a one-rune string
V1 == <<"v", "1">>
V2 == <<"v", "2">>
RefV1 == <<"$", "{", "v", "1", "}">>
RefV2 == <<"$", "{", "v", "2", "}">>
Unclosed == <<"f", "$", "{">>

MergeVariants ==
    {[ZeroBV EXCEPT !.RunOn = r, !.Modules = m, !.Tags = tg, !.BatchTime = b,
                    !.Stepback = sb, !.Expansions = e] :
        r \in {<<>>, <<S("d")>>}, m \in {<<>>, <<S("m")>>},
        tg \in {<<>>, <<S("t")>>, <<S("t"), S("u")>>},
        b \in {<<>>, <<1>>}, sb \in {<<>>, <<TRUE>>},
        e \in {<<>>, [k \in {V1} |-> S("x")], [k \in {V1, V2} |-> S("y")]}}

MergeAxisValues ==
    {[ZeroAxisValue EXCEPT !.RunOn = r, !.Modules = m, !.Tags = tg, !.BatchTime = b,
                           !.Stepback = sb, !.Variables = vs] :
        r \in {<<>>, <<S("e")>>, <<RefV1, RefV2>>}, m \in {<<>>, <<S("n")>>},
        tg \in {<<>>, <<S("t")>>, <<S("w"), <<"f">> \o RefV2>>, <<Unclosed>>},
        b \in {<<>>, <<2>>}, sb \in {<<>>, <<FALSE>>},
        vs \in {<<>>,
                [k \in {V2} |-> S("z")],
                [k \in {V2} |-> RefV1 \o S("!")],
                [k \in {V2} |-> Unclosed],
                [k \in {RefV1, S("x")} |-> IF k = S("x") THEN S("2") ELSE S("1")],
                [k \in {V1, V2} |-> IF k = V1 THEN S("q") ELSE RefV1 \o S("!")]}}

InitMerge ==
    /\ pc = "start"
    /\ pbv \in MergeVariants
    /\ av \in MergeAxisValues
    /\ mergeErr = Nil
    /\ ExceptMergeIdle

\* err := pbv.mergeAxisValue(av)
MergeAxisValue ==
    /\ pc = "start"
    /\ \E r \in mergeAxisValue(pbv, av) :
        /\ pbv' = r.val
        /\ mergeErr' = r.err
    /\ pc' = "done"
    /\ UNCHANGED <<av, exceptMerge>>

NextMerge == MergeAxisValue

SpecMerge == InitMerge /\ [][NextMerge]_vars

\* the string holds no placeholder
Plain(s) == "$" \notin Range(s)

\* the strings of a list expanded against a map
Expanded(strings, exp) == [i \in DOMAIN strings |-> ExpandString(exp, strings[i]).val]

\* C10: a successful mergeAxisValue replaces run_on and modules by the axis
\* value's (expanded) lists when these are non-empty and leaves them unchanged
\* otherwise, replaces stepback and batchtime only when the axis value sets
\* them, adds the axis value's (expanded) tags to the existing tags without
\* duplicates and without removing any, and adds the axis value's (expanded)
\* variables to the expansion map, keeping every other existing key.
C10_MergeEffect ==
    [][pc = "start" /\ pc' = "done" /\ mergeErr' = Nil =>
        LET newKeys == {ExpandString(pbv.Expansions, k).val : k \in DOMAIN av.Variables}
        IN  /\ pbv'.RunOn = IF Len(av.RunOn) > 0
                            THEN Expanded(av.RunOn, pbv'.Expansions) ELSE pbv.RunOn
            /\ Len(av.RunOn) > 0 /\ (\A i \in DOMAIN av.RunOn : Plain(av.RunOn[i]))
                   => pbv'.RunOn = av.RunOn
            /\ pbv'.Modules = IF Len(av.Modules) > 0
                              THEN Expanded(av.Modules, pbv'.Expansions) ELSE pbv.Modules
            /\ Len(av.Modules) > 0 /\ (\A i \in DOMAIN av.Modules : Plain(av.Modules[i]))
                   => pbv'.Modules = av.Modules
            /\ pbv'.Stepback = IF av.Stepback # <<>> THEN av.Stepback ELSE pbv.Stepback
            /\ pbv'.BatchTime = IF av.BatchTime # <<>> THEN av.BatchTime ELSE pbv.BatchTime
            /\ Range(pbv'.Tags) =
                   Range(pbv.Tags) \cup Range(Expanded(av.Tags, pbv'.Expansions))
            /\ Len(av.Tags) > 0 => NoDuplicates(pbv'.Tags)
            /\ Len(av.Tags) = 0 => pbv'.Tags = pbv.Tags
            /\ DOMAIN pbv'.Expansions = DOMAIN pbv.Expansions \cup newKeys
            /\ \A k \in DOMAIN pbv.Expansions \ newKeys :
                   pbv'.Expansions[k] = pbv.Expansions[k]
            /\ \A nk \in newKeys : \E k \in DOMAIN av.Variables :
                   /\ ExpandString(pbv.Expansions, k).val = nk
                   /\ pbv'.Expansions[nk] = ExpandString(pbv.Expansions, av.Variables[k]).val
            /\ \A k \in DOMAIN av.Variables :
                   (\A k2 \in DOMAIN av.Variables : Plain(k2)) /\ Plain(av.Variables[k])
                       => pbv'.Expansions[k] = av.Variables[k]
    ]_vars

\* a merge succeeded that overwrote run_on, kept the modules, set stepback,
\* added a tag to existing ones and a variable to existing ones
C10_Witness ==
    /\ pc = "done" /\ mergeErr = Nil
    /\ Len(av.RunOn) > 0 /\ pbv.RunOn = av.RunOn
    /\ Len(av.Modules) = 0 /\ pbv.Modules = <<S("m")>>
    /\ av.Stepback # <<>> /\ av.BatchTime = <<>> /\ pbv.BatchTime = <<1>>
    /\ av.Tags = <<S("t")>> /\ pbv.Tags = <<S("t"), S("u")>>
    /\ DOMAIN av.Variables = {V2} /\ DOMAIN pbv.Expansions = {V1, V2}
    /\ pbv.Expansions[V1] = S("y") /\ pbv.Expansions[V2] = S("z")

\* the string has a placeholder that is never closed
Unterminated(s) == ExpandString(<<>>, s).err # Nil

\* C28: within one call the variables are expanded against the expansion map
\* as it was before the call and merged into it, and the tags, run_on and
\* modules are expanded afterwards, against the updated map; an unterminated
\* placeholder in the variables or the tags makes the call return an error
C28_VariablesThenTags ==
    [][pc = "start" /\ pc' = "done" =>
        /\ (\/ \E k \in DOMAIN av.Variables : Unterminated(k) \/ Unterminated(av.Variables[k])
            \/ \E i \in DOMAIN av.Tags : Unterminated(av.Tags[i]))
               => mergeErr' # Nil
        /\ mergeErr' = Nil =>
            /\ \A k \in DOMAIN av.Variables : \E k2 \in DOMAIN av.Variables :
                   /\ ExpandString(pbv.Expansions, k2).val = ExpandString(pbv.Expansions, k).val
                   /\ pbv'.Expansions[ExpandString(pbv.Expansions, k).val]
                          = ExpandString(pbv.Expansions, av.Variables[k2]).val
            /\ \A i \in DOMAIN av.Tags :
                   ExpandString(pbv'.Expansions, av.Tags[i]).val \in Range(pbv'.Tags)
            /\ Len(av.RunOn) > 0 => pbv'.RunOn = Expanded(av.RunOn, pbv'.Expansions)
            /\ Len(av.Modules) > 0 => pbv'.Modules = Expanded(av.Modules, pbv'.Expansions)
    ]_vars

\* a merge succeeded in which a tag of the axis value took the value of a
\* variable of the same axis value, not the value the variant had for it
C28_Witness ==
    /\ pc = "done" /\ mergeErr = Nil
    /\ DOMAIN av.Variables = {V2} /\ av.Variables[V2] = S("z")
    /\ av.Tags = <<S("w"), <<"f">> \o RefV2>>
    /\ <<"f", "z">> \in Range(pbv.Tags)
    /\ <<"f", "y">> \notin Range(pbv.Tags)

(***************************************************************************)
(* Containment: inputs and the operation                                   *)
(***************************************************************************)
MaxExcludes == 2

AxisIdPool == {S("x"), S("y")}
ValuePool == <<S("1"), S("2"), S("3")>>

\* every map from some of the axes to a value
CellsOver(axisIds, values) ==
    UNION {[dom -> values] : dom \in SUBSET axisIds}

\* every map from some of the axes to one of the lists
DefinitionsOver(axisIds, lists) ==
    UNION {[dom -> lists] : dom \in SUBSET axisIds}

ContainLists == {<<S("1")>>, <<S("2")>>, <<S("1"), S("2")>>}

InitContain ==
    /\ pc = "start"
    /\ mds \in UNION {[1..n -> DefinitionsOver(AxisIdPool, ContainLists)] : n \in 0..MaxExcludes}
    /\ mv \in CellsOver(AxisIdPool, {S("1"), S("2")})
    /\ contained = FALSE
    /\ ExceptContainIdle

\* contained := mds.contain(mv)
Contain ==
    /\ pc = "start"
    /\ contained' = contain(mds, mv)
    /\ pc' = "done"
    /\ UNCHANGED <<mds, mv, exceptContain>>

NextContain == Contain

SpecContain == InitContain /\ [][NextContain]_vars

\* C8 as stated: a cell is contained by an exclude spec exactly when, for each
\* axis present in the exclude spec, the cell's value for that axis is in the
\* spec's list; axes the exclude spec omits match every cell value.
C8_OmittedAxesMatchAll ==
    pc = "done" =>
        (contained <=> \E i \in DOMAIN mds : \A a \in DOMAIN mds[i] :
                           a \in DOMAIN mv /\ mv[a] \in Range(mds[i][a]))

\* C8 amended: a cell is contained by an exclude spec exactly when, for each
\* axis of the cell, the exclude spec has that axis and lists the cell's value
\* for it; an exclude spec that omits an axis of the cell does not contain it.
C8_CellAxesListed ==
    pc = "done" =>
        (contained <=> \E i \in DOMAIN mds : \A a \in DOMAIN mv :
                           a \in DOMAIN mds[i] /\ mv[a] \in Range(mds[i][a]))

\* a two-axis cell was tested against one spec that lists only one of its
\* axes, with the cell's value, and was found not contained
C8_Witness ==
    /\ pc = "done"
    /\ Len(mds) = 1
    /\ DOMAIN mv = AxisIdPool
    /\ DOMAIN mds[1] = {S("x")}
    /\ mv[S("x")] \in Range(mds[1][S("x")])
    /\ ~contained

\* C27: a definition contains a cell exactly when every axis of the cell is
\* a key of the definition and the cell's value is in the list under it:
\* every definition contains the empty cell, a definition contains a cell
\* over some of its axes with listed values, and no definition contains a
\* cell with an axis it lacks
C27_ContainsIsPerCellAxis ==
    pc = "done" /\ Len(mds) = 1 =>
        /\ contained <=> \A a \in DOMAIN mv : \E d \in {mds[1]} :
                             a \in DOMAIN d /\ \E i \in DOMAIN d[a] : d[a][i] = mv[a]
        /\ DOMAIN mv = {} => contained
        /\ DOMAIN mv \ DOMAIN mds[1] # {} => ~contained

\* a definition over two axes was found to contain a cell over one of them
C27_Witness ==
    /\ pc = "done"
    /\ Len(mds) = 1
    /\ DOMAIN mds[1] = AxisIdPool
    /\ DOMAIN mv = {S("x")}
    /\ contained

(***************************************************************************)
(* allCells: inputs and the loop                                           *)
(***************************************************************************)
MaxValues == 2

CellAxisPool == {S("x"), S("y"), S("z")}

\* the value lists of an axis: the first n values, a list with a duplicate,
\* and the empty list
CellLists ==
    {SubSeq(ValuePool, 1, n) : n \in 1..MaxValues} \cup {<<S("1"), S("1")>>, <<>>}

InitCells ==
    /\ pc = "start"
    /\ mdef \in DefinitionsOver(CellAxisPool, CellLists)
    /\ axisCache = <<>>
    /\ carryOne = FALSE
    /\ cells = <<>>
    /\ ExceptCellsIdle

\* allCells up to its loop: the empty definition returns at once, an axis
\* without values panics, otherwise the axes are cached in map order
AllCellsStart ==
    /\ pc = "start"
    /\ IF DOMAIN mdef = {} THEN
           /\ pc' = "done"
           /\ UNCHANGED axisCache
       ELSE IF \E a \in DOMAIN mdef : Len(mdef[a]) = 0 THEN
           /\ pc' = "panic"
           /\ UNCHANGED axisCache
       ELSE
           /\ \E ord \in Orderings(DOMAIN mdef) : axisCache' = axisCacheOf(mdef, ord)
           /\ pc' = "loop"
    /\ UNCHANGED <<mdef, carryOne, cells, exceptCells>>

\* one iteration of the outer loop of allCells
AllCellsIterate ==
    /\ pc = "loop"
    /\ LET o == odometer(axisCache, carryOne, <<>>, 1)
       IN  /\ axisCache' = o.axes
           /\ IF o.carryOne
              THEN pc' = "done" /\ carryOne' = TRUE /\ UNCHANGED cells
              ELSE pc' = "loop" /\ carryOne' = TRUE /\ cells' = Append(cells, o.c)
    /\ UNCHANGED <<mdef, exceptCells>>

NextCells == AllCellsStart \/ AllCellsIterate

\* the function runs on: a step that can be taken is taken
SpecCells == InitCells /\ [][NextCells]_vars /\ WF_vars(NextCells)

\* every axis of the definition has a non-empty list without duplicates
CleanDefinition(def) ==
    \A a \in DOMAIN def : Len(def[a]) > 0 /\ NoDuplicates(def[a])

\* one value of its list for every axis
Product(def) == {c \in [DOMAIN def -> UNION {Range(def[a]) : a \in DOMAIN def}] :
                    \A a \in DOMAIN def : c[a] \in Range(def[a])}

RECURSIVE ProductOfLengths(_, _)
ProductOfLengths(def, axisIds) ==
    IF axisIds = {} THEN 1
    ELSE LET a == CHOOSE x \in axisIds : TRUE
         IN  Len(def[a]) * ProductOfLengths(def, axisIds \ {a})

\* C7: for a definition whose axes all have a non-empty, duplicate-free list,
\* allCells terminates and returns exactly the Cartesian product of the axes,
\* every combination once, so as many cells as the product of the list
\* lengths; for the empty definition it returns no cells.
C7_AllCellsIsProduct ==
    /\ [](pc = "done" /\ DOMAIN mdef # {} /\ CleanDefinition(mdef) =>
            /\ Range(cells) = Product(mdef)
            /\ NoDuplicates(cells)
            /\ Len(cells) = ProductOfLengths(mdef, DOMAIN mdef))
    /\ [](pc = "done" /\ DOMAIN mdef = {} => cells = <<>>)
    /\ (CleanDefinition(mdef) ~> pc = "done")

\* the cells of a definition of three axes, two of them with two values, with
\* the carry having reached the last axis
C7_Witness ==
    /\ pc = "done"
    /\ DOMAIN mdef = CellAxisPool
    /\ CleanDefinition(mdef)
    /\ Len(cells) = 4
    /\ Len(axisCache[3].Vals) = 2

(***************************************************************************)
(* Matrix engine: the axes and matrices of the inputs                      *)
(***************************************************************************)
\* an axis value with an id and tags
Value(id, tags) == [ZeroAxisValue EXCEPT !.Id = id, !.Tags = tags]

Axis(id, values) == [Id |-> id, DisplayName |-> <<>>, Values |-> values]

AxisX == Axis(S("x"), <<Value(S("1"), <<S("t")>>),
                        [Value(S("2"), <<>>) EXCEPT !.DisplayName = S("B"),
                                                    !.Variables = [k \in {V1} |-> S("r")]]>>)
AxisY == Axis(S("y"), <<Value(S("1"), <<>>), Value(S("2"), <<S("t"), S("u")>>)>>)
\* the second value of this axis cannot be merged: its tag is not closed
AxisYBad == Axis(S("y"), <<Value(S("1"), <<>>), Value(S("2"), <<Unclosed>>)>>)
AxisZ == Axis(S("z"), <<[Value(S("1"), <<>>) EXCEPT !.RunOn = <<S("d")>>], Value(S("2"), <<Unclosed>>)>>)

\* a matrix with every field at its zero value
ZeroMatrix ==
    [Id |-> <<>>, Spec |-> <<>>, Exclude |-> <<>>, DisplayName |-> <<>>, Tags |-> <<>>,
     Modules |-> <<>>, BatchTime |-> <<>>, Stepback |-> <<>>, RunOn |-> <<>>,
     Tasks |-> <<>>, Rules |-> <<>>]

Def1(a, l) == [k \in {a} |-> l]
Def2(a, la, b, lb) == [k \in {a, b} |-> IF k = a THEN la ELSE lb]

\* a task that depends on a task of the variant named by the cell's x value,
\* and requires one on the variants of a matrix sub-definition
TemplateTask ==
    [ZeroBVTask EXCEPT
        !.Name = S("c"),
        !.DependsOn = <<[Name |-> S("a"), Status |-> <<>>, PatchOptional |-> FALSE,
                         Variant |-> <<[stringSelector |-> <<"v">> \o <<"$", "{", "x", "}">>,
                                        matrixSelector |-> <<>>]>>]>>,
        !.Requires = <<[Name |-> S("b"),
                        Variant |-> <<[stringSelector |-> <<>>,
                                       matrixSelector |-> Def1(S("x"), <<<<"$", "{", "x", "}">>>>)]>>]>>]

\* when x is 1: add a tag and a task
TemplateRule ==
    [If   |-> <<Def2(S("x"), <<S("1")>>, S("y"), <<S("*")>>), Def1(S("x"), <<S("1")>>)>>,
     Then |-> [Set |-> <<Value(<<>>, <<S("h")>>)>>, RemoveTasks |-> <<>>,
               AddTasks |-> <<[ZeroBVTask EXCEPT !.Name = S("a")]>>]]

\* the axis x, whose first value declares a variable named as the axis
AxisXSelf == Axis(S("x"), <<[Value(S("1"), <<>>) EXCEPT !.Variables = [k \in {S("x")} |-> S("r")]],
                            Value(S("2"), <<>>)>>)

\* for the cells over x alone: set a variable named as the axis
ShadowRule ==
    [If   |-> <<Def1(S("x"), <<S("*")>>)>>,
     Then |-> [Set |-> <<[ZeroAxisValue EXCEPT !.Variables = [k \in {S("x")} |-> S("s")]]>>,
               RemoveTasks |-> <<>>, AddTasks |-> <<>>]]

\* a rule whose condition names a value no axis has
BadRule ==
    [If   |-> <<Def1(S("x"), <<S("9")>>)>>,
     Then |-> [Set |-> <<>>, RemoveTasks |-> <<S("a")>>, AddTasks |-> <<>>]]

(***************************************************************************)
(* buildMatrixVariant: inputs and the operation                            *)
(***************************************************************************)
VariantAxisLists ==
    {<<AxisX, AxisY, AxisZ>>, <<AxisZ, AxisY, AxisX>>, <<AxisY, AxisX>>, <<AxisX>>,
     <<AxisXSelf, AxisY>>}

VariantMatrices ==
    {[ZeroMatrix EXCEPT !.Id = S("m"), !.DisplayName = d, !.Tags = tg, !.Tasks = ts, !.Rules = rs] :
        d \in {S("d"), <<"$", "{", "x", "}", "-", "$", "{", "y", "}">>, Unclosed},
        tg \in {<<>>, <<S("g")>>},
        ts \in {<<>>, <<TemplateTask>>},
        rs \in {<<>>, <<TemplateRule>>, <<BadRule>>, <<ShadowRule>>}}

InitVariant ==
    /\ pc = "start"
    /\ axes \in VariantAxisLists
    /\ \E m \in VariantMatrices : matrices = <<m>>
    /\ cell \in CellsOver({S("x"), S("y"), S("z")}, {S("1"), S("2"), S("9")})
    /\ variant = <<>>
    /\ variantErr = Nil
    /\ ExceptVariantIdle

\* variant, err := buildMatrixVariant(axes, cell, &matrices[0], ase)
BuildMatrixVariant ==
    /\ pc = "start"
    /\ \E r \in buildMatrixVariant(axes, cell, matrices[1], NewAxisSelectorEvaluator(axes)) :
        /\ variant' = r.val
        /\ variantErr' = r.err
        /\ matrices' = <<r.m>>
    /\ pc' = "done"
    /\ UNCHANGED <<axes, cell, exceptVariant>>

NextVariant == BuildMatrixVariant

SpecVariant == InitVariant /\ [][NextVariant]_vars

\* the strings joined by a separator
RECURSIVE Join(_, _)
Join(strs, sep) ==
    IF strs = <<>> THEN <<>>
    ELSE IF Len(strs) = 1 THEN strs[1]
    ELSE strs[1] \o sep \o Join(Tail(strs), sep)

\* every axis of the cell is declared, and has the cell's value
Declared(axisList, c) ==
    \A a \in DOMAIN c : \E i \in DOMAIN axisList :
        /\ axisList[i].Id = a
        /\ \E j \in DOMAIN axisList[i].Values : axisList[i].Values[j].Id = c[a]

\* <matrix-id>__<axis>~<value>_<axis>~<value>..., the axes in declaration order
ExpectedName(id, axisList, c) ==
    LET used  == SelectSeq(axisList, LAMBDA a : a.Id \in DOMAIN c)
        pairs == [i \in DOMAIN used |-> used[i].Id \o <<"~">> \o c[used[i].Id]]
    IN  id \o <<"_", "_">> \o Join(pairs, <<"_">>)

\* C9: for a cell whose axes are all declared and whose values all exist in
\* their axes, buildMatrixVariant names the variant <matrix-id>__ followed by
\* the <axis>~<value> pairs of the cell joined by _, in the order of the axis
\* declaration list, and does not fail for the cell's axes or values; for a
\* cell with an undeclared axis or a value its axis does not have, it returns
\* an error and no variant.
C9_VariantName ==
    pc = "done" =>
        /\ variant = <<>> <=> variantErr # Nil
        /\ Declared(axes, cell) =>
            /\ variant # <<>> => variant[1].Name = ExpectedName(matrices[1].Id, axes, cell)
            /\ variantErr \notin {"cell uses undefined axes", "axis does not contain value"}
        /\ ~Declared(axes, cell) => variantErr # Nil /\ variant = <<>>

\* a variant was built for a cell of two axes, declared in the order y, x
C9_Witness ==
    /\ pc = "done"
    /\ variant # <<>>
    /\ DOMAIN cell = {S("x"), S("y")}
    /\ axes[1].Id = S("y")
    /\ variant[1].Name = <<"m", "_", "_", "y", "~", "2", "_", "x", "~", "1">>

\* C11: the expansion map of a variant buildMatrixVariant synthesized maps
\* every axis id of its cell to the cell's value id for that axis.
C11_ExpansionsHoldCell ==
    pc = "done" /\ variant # <<>> =>
        \A a \in DOMAIN cell :
            /\ a \in DOMAIN variant[1].Expansions
            /\ variant[1].Expansions[a] = cell[a]

\* the selector after stands for the selector before, expanded: the name, and
\* the variant selector when there was one
KeptSelector(before, after, exp) ==
    /\ after.Name = ExpandString(exp, before.Name).val
    /\ before.Variant # <<>> =>
        /\ after.Variant # <<>>
        /\ after.Variant[1].stringSelector
               = ExpandString(exp, before.Variant[1].stringSelector).val
        /\ after.Variant[1].matrixSelector
               = [a \in DOMAIN before.Variant[1].matrixSelector |->
                     expandStrings(before.Variant[1].matrixSelector[a], exp).val]

\* the task after stands for the matrix task before, expanded
KeptSelectors(before, after, exp) ==
    /\ Len(after.DependsOn) = Len(before.DependsOn)
    /\ Len(after.Requires) = Len(before.Requires)
    /\ \A j \in DOMAIN before.DependsOn :
           KeptSelector(before.DependsOn[j], after.DependsOn[j], exp)
    /\ \A j \in DOMAIN before.Requires :
           KeptSelector(before.Requires[j], after.Requires[j], exp)

\* the expansion maps the variant of the cell can have when the tasks of the
\* matrix are expanded, which is before the rules are looked at
ExpansionsForTasks ==
    {r.val[1].Expansions :
        r \in {b \in buildMatrixVariant(axes, cell, [matrices[1] EXCEPT !.Rules = <<>>],
                                         NewAxisSelectorEvaluator(axes)) : b.val # <<>>}}

\* C26: the tasks of a synthesized variant keep every dependency and
\* requirement of the matrix tasks, with name and variant selector expanded
\* against the expansions of the cell; a selector that had a variant selector
\* still has one
C26_SelectorsKeptExpanded ==
    [][pc = "start" /\ pc' = "done" /\ variant' # <<>> =>
          \E exp \in ExpansionsForTasks :
              \A i \in DOMAIN matrices[1].Tasks :
                  KeptSelectors(matrices[1].Tasks[i], variant'[1].Tasks[i], exp)]_vars

\* C30: building the variant of a cell leaves the matrix as it was: its tasks
\* with their dependency and requirement selectors, tags, run_on and modules
C30_TemplateUnchanged ==
    [][pc = "start" /\ pc' = "done" => matrices' = matrices]_vars

(***************************************************************************)
(* buildMatrixVariants: inputs and the operation                           *)
(***************************************************************************)
MatrixAxisLists == {<<AxisX, AxisY>>, <<AxisY, AxisX>>, <<AxisX, AxisYBad>>}

MatrixSpecs ==
    {Def2(S("x"), <<S("*")>>, S("y"), <<S("*")>>),
     Def2(S("x"), <<S("1")>>, S("y"), <<S("*")>>),
     Def2(S("x"), <<<<".", "t">>>>, S("y"), <<S("1"), S("2")>>),
     Def1(S("x"), <<S("1"), S("*")>>),
     Def2(S("x"), <<S("9")>>, S("y"), <<S("*")>>),
     Def1(S("w"), <<S("*")>>),
     Def2(S("x"), <<>>, S("y"), <<S("1")>>),
     <<>>}

MatrixExcludes ==
    {<<>>,
     <<Def2(S("x"), <<S("1")>>, S("y"), <<S("1")>>)>>,
     <<Def1(S("x"), <<S("1")>>)>>,
     <<Def2(S("x"), <<S("*")>>, S("y"), <<S("1"), S("2")>>)>>,
     <<Def2(S("x"), <<S("1")>>, S("y"), <<S("1"), S("2")>>),
       Def2(S("x"), <<S("1"), S("2")>>, S("y"), <<S("1")>>)>>,
     <<Def1(S("x"), <<S("9")>>)>>}

MatrixPool ==
    {[ZeroMatrix EXCEPT !.Id = S("m"), !.Spec = sp, !.Exclude = ex,
                        !.Tasks = tr[1], !.Rules = tr[2]] :
        sp \in MatrixSpecs, ex \in MatrixExcludes,
        tr \in {<<<<>>, <<>>>>, <<<<TemplateTask>>, <<TemplateRule>>>>}}

SecondMatrixPool ==
    {[ZeroMatrix EXCEPT !.Id = S("n"), !.Spec = sp, !.Exclude = ex] :
        sp \in {Def1(S("y"), <<S("*")>>), Def1(S("y"), <<S("9")>>)},
        ex \in {<<>>, <<Def1(S("y"), <<S("1")>>)>>}}

InitMatrix ==
    /\ pc = "start"
    /\ axes \in MatrixAxisLists
    /\ matrices \in {<<m>> : m \in MatrixPool}
                    \cup {<<m, n>> : m \in MatrixPool, n \in SecondMatrixPool}
    /\ matrixVariants = <<>>
    /\ errs = <<>>
    /\ ExceptMatrixIdle

\* matrixVariants, errs := buildMatrixVariants(axes, ase, matrices)
BuildMatrixVariants ==
    /\ pc = "start"
    /\ \E r \in buildMatrixVariants(axes, NewAxisSelectorEvaluator(axes), matrices) :
        IF r.panic
        THEN /\ pc' = "panic"
             /\ UNCHANGED <<matrices, matrixVariants, errs>>
        ELSE /\ pc' = "done"
             /\ matrices' = r.matrices
             /\ matrixVariants' = r.val
             /\ errs' = r.errs
    /\ UNCHANGED <<axes, exceptMatrix>>

NextMatrix == BuildMatrixVariants

SpecMatrix == InitMatrix /\ [][NextMatrix]_vars

\* the values of an axis, as the items of a cohort (none when it is not declared)
AxisCohort(axisList, a) ==
    IF \A i \in DOMAIN axisList : axisList[i].Id # a THEN <<>>
    ELSE LET ax == axisList[CHOOSE i \in DOMAIN axisList : axisList[i].Id = a]
         IN  [j \in DOMAIN ax.Values |-> [name |-> ax.Values[j].Id, tags |-> ax.Values[j].Tags]]

\* every selector of the definition is over a declared axis, resolves, and
\* selects something
DefEvaluates(axisList, def) ==
    \A a \in DOMAIN def :
        /\ \E i \in DOMAIN axisList : axisList[i].Id = a
        /\ \A k \in DOMAIN def[a] :
            /\ AllResolve(AxisCohort(axisList, a), ParseSelector(def[a][k]))
            /\ Selected(AxisCohort(axisList, a), ParseSelector(def[a][k])) # {}

\* the value ids each axis of the definition selects
EvaluatedDef(axisList, def) ==
    [a \in DOMAIN def |->
        UNION {Selected(AxisCohort(axisList, a), ParseSelector(def[a][k])) : k \in DOMAIN def[a]}]

\* the cells of an evaluated definition: one selected value for every axis
CellsOf(ev) ==
    IF DOMAIN ev = {} THEN {}
    ELSE {c \in [DOMAIN ev -> UNION {ev[a] : a \in DOMAIN ev}] : \A a \in DOMAIN ev : c[a] \in ev[a]}

\* the cell is contained in the evaluated definition
ContainedIn(c, ev) == \A a \in DOMAIN c : a \in DOMAIN ev /\ c[a] \in ev[a]

\* C6: for a matrix whose spec and exclude selectors all evaluate and whose
\* cells all build without error, buildMatrixVariants synthesizes as many
\* variants as the evaluated spec has cells, minus the cells contained in at
\* least one evaluated exclude spec, and the cells synthesized are exactly
\* the ones that are not excluded.
C6_VariantsAreUnexcludedCells ==
    pc = "done" =>
        \A k \in DOMAIN matrices :
            LET m        == matrices[k]
                mine     == SelectSeq(matrixVariants, LAMBDA v : v.matrixId = m.Id)
                all      == CellsOf(EvaluatedDef(axes, m.Spec))
                excluded == {c \in all : \E i \in DOMAIN m.Exclude :
                                ContainedIn(c, EvaluatedDef(axes, m.Exclude[i]))}
            IN  /\ DefEvaluates(axes, m.Spec)
                /\ \A i \in DOMAIN m.Exclude : DefEvaluates(axes, m.Exclude[i])
                /\ ~\E i \in DOMAIN errs :
                        errs[i].kind = "error building matrix cell" /\ errs[i].matrix = m.Id
                => /\ Len(mine) = Cardinality(all) - Cardinality(excluded)
                   /\ {mine[i].matrixVal : i \in DOMAIN mine} = all \ excluded

\* of the four cells of a matrix, three were excluded, one of them by both
\* exclude specs, and one variant was synthesized
C6_Witness ==
    /\ pc = "done"
    /\ Len(matrices[1].Exclude) = 2
    /\ Cardinality(CellsOf(EvaluatedDef(axes, matrices[1].Spec))) = 4
    /\ Len(SelectSeq(matrixVariants, LAMBDA v : v.matrixId = matrices[1].Id)) = 1
    /\ errs = <<>>

\* C12: buildMatrixVariants is deterministic: every result the call can have
\* for the given axes and matrices is the same ordered list of variants.
C12_OneOrderOfVariants ==
    [][pc = "start" /\ pc' = "done" =>
          \A r \in buildMatrixVariants(axes, NewAxisSelectorEvaluator(axes), matrices) :
              ~r.panic => r.val = matrixVariants']_vars

\* the matrix has an error of the kind in the errors returned
Reported(kind, m) == \E j \in DOMAIN errs : errs[j].kind = kind /\ errs[j].matrix = m.Id

\* the matrix has some error in the errors returned
ReportedAny(m) == \E j \in DOMAIN errs : errs[j].matrix = m.Id

\* the spec and the exclude specs of the matrix evaluate, and the spec has cells
Evaluates(m) ==
    /\ DOMAIN m.Spec # {}
    /\ DefEvaluates(axes, m.Spec)
    /\ \A i \in DOMAIN m.Exclude : DefEvaluates(axes, m.Exclude[i])

\* the cells of the matrix that one of its exclude specs contains
ExcludedCells(m) ==
    {c \in CellsOf(EvaluatedDef(axes, m.Spec)) :
        \E i \in DOMAIN m.Exclude : ContainedIn(c, EvaluatedDef(axes, m.Exclude[i]))}

\* C22: a matrix with a non-empty exclude list none of whose exclude specs
\* contains a cell of the evaluated spec gets the error 'exclude field did
\* not exclude anything', also when some of its cells fail to build
C22_NoopExcludeReported ==
    pc = "done" =>
        \A k \in DOMAIN matrices :
            Len(matrices[k].Exclude) > 0 /\ Evaluates(matrices[k])
            /\ ExcludedCells(matrices[k]) = {}
            => Reported("exclude field did not exclude anything", matrices[k])

\* C23: a matrix whose exclude specs contain every cell of its spec gets no
\* variant and gets an error
C23_ExcludeAllReported ==
    pc = "done" =>
        \A k \in DOMAIN matrices :
            Len(matrices[k].Exclude) > 0 /\ Evaluates(matrices[k])
            /\ ExcludedCells(matrices[k]) = CellsOf(EvaluatedDef(axes, matrices[k].Spec))
            => /\ \A i \in DOMAIN matrixVariants : matrixVariants[i].matrixId # matrices[k].Id
               /\ ReportedAny(matrices[k])

\* the spec of the matrix evaluates and lists no value for one of its axes
EmptyAxisList(m) ==
    /\ \E a \in DOMAIN m.Spec : m.Spec[a] = <<>>
    /\ \A a \in DOMAIN m.Spec : m.Spec[a] # <<>> => DefEvaluates(axes, Def1(a, m.Spec[a]))
    /\ \A a \in DOMAIN m.Spec : \E i \in DOMAIN axes : axes[i].Id = a
    /\ \A i \in DOMAIN m.Exclude : DefEvaluates(axes, m.Exclude[i])

\* C24: when the spec of a matrix maps an axis to an empty list, the call
\* returns, with an error for that matrix in the errors returned and with the
\* variants of the other matrices
C24_EmptyAxisListReported ==
    pc # "start" =>
        \A k \in DOMAIN matrices :
            EmptyAxisList(matrices[k])
            => /\ pc = "done"
               /\ ReportedAny(matrices[k])
               /\ \A n \in DOMAIN matrices :
                      n # k /\ Evaluates(matrices[n]) /\ matrices[n].Exclude = <<>>
                      => \E i \in DOMAIN matrixVariants :
                             matrixVariants[i].matrixId = matrices[n].Id

(***************************************************************************)
(* Translator: the tasks, variants and dependencies of the inputs          *)
(***************************************************************************)
\* a variant selector of either arm
StringVariant(s) == <<[stringSelector |-> s, matrixSelector |-> <<>>]>>
MatrixVariant(def) == <<[stringSelector |-> <<>>, matrixSelector |-> def]>>

\* an intermediate dependency
Dep(name, var, status, patchOptional) ==
    [Name |-> name, Variant |-> var, Status |-> status, PatchOptional |-> patchOptional]

\* an intermediate task
Task(name, tags, dependsOn, requires) ==
    [Name |-> name, Tags |-> tags, DependsOn |-> dependsOn, Requires |-> requires,
     Priority |-> 0, ExecTimeoutSecs |-> 0, DisableCleanup |-> FALSE,
     Commands |-> <<>>, Stepback |-> <<>>]

Failed == <<"f", "a", "i", "l", "e", "d">>
TagT == <<".", "t">>
TagG == <<".", "g">>
Nope == <<".", "n", "o", "p", "e">>

\* the variants v and w, both tagged g, and the two variants of the cells of
\* a matrix m over the axis x
RegularVariants ==
    <<[ZeroBV EXCEPT !.Name = S("v"), !.Tags = <<S("g")>>],
      [ZeroBV EXCEPT !.Name = S("w"), !.Tags = <<S("g")>>]>>

CellVariant(val) ==
    [ZeroBV EXCEPT !.Name = S("m") \o nameSeparator \o <<"x", "~", val>>,
                   !.matrixId = S("m"), !.matrixVal = Def1(S("x"), S(val))]

\* a project whose matrix variants are built: tasks a and b tagged t, task c
DependsProject ==
    [Identifier    |-> S("p"),
     Tasks         |-> <<Task(S("a"), <<S("t")>>, <<>>, <<>>), Task(S("b"), <<S("t")>>, <<>>, <<>>),
                         Task(S("c"), <<>>, <<>>, <<>>)>>,
     BuildVariants |-> RegularVariants \o <<CellVariant("1"), CellVariant("2")>>,
     Axes          |-> <<AxisX>>,
     matrices      |-> <<>>]

\* the same project without a task
NoTasksProject == [DependsProject EXCEPT !.Tasks = <<>>]

(***************************************************************************)
(* evaluateDependsOn: inputs and the operation                             *)
(***************************************************************************)
MaxDeps == 3

DependencyPool ==
    {Dep(S("a"), <<>>, <<>>, FALSE),
     Dep(S("a"), <<>>, Failed, FALSE),
     Dep(TagT, <<>>, <<>>, FALSE),
     Dep(TagT, StringVariant(TagG), <<>>, FALSE),
     Dep(S("b"), StringVariant(S("v")), <<>>, TRUE),
     Dep(AllDependencies, <<>>, <<>>, FALSE),
     Dep(AllDependencies, StringVariant(TagG), Failed, FALSE),
     Dep(AllDependencies, StringVariant(S("q")), <<>>, FALSE),
     Dep(Nope, <<>>, <<>>, FALSE),
     Dep(S("a"), MatrixVariant(Def1(S("x"), <<S("1")>>)), <<>>, FALSE),
     Dep(TagT, MatrixVariant(Def1(S("x"), <<S("*")>>)), Failed, FALSE),
     Dep(S("b"), MatrixVariant(Def1(S("x"), <<S("9")>>)), <<>>, FALSE)}

DependencyLists == UNION {[1..n -> DependencyPool] : n \in 0..MaxDeps}

InitDependsOn ==
    /\ pc = "start"
    /\ pp \in {DependsProject, NoTasksProject}
    /\ deps \in DependencyLists
    /\ newDeps = <<>>
    /\ depErrs = <<>>
    /\ ExceptDependsOnIdle

\* newDeps, depErrs := evaluateDependsOn(tse, vse, deps)
EvaluateDependsOn ==
    /\ pc = "start"
    /\ \E r \in evaluateDependsOn(NewParserTaskSelectorEvaluator(pp.Tasks),
                    NewVariantSelectorEvaluator(pp.BuildVariants,
                        NewAxisSelectorEvaluator(pp.Axes)),
                    deps) :
        /\ newDeps' = r.val
        /\ depErrs' = r.errs
    /\ pc' = "done"
    /\ UNCHANGED <<pp, deps, exceptDependsOn>>

NextDependsOn == EvaluateDependsOn

SpecDependsOn == InitDependsOn /\ [][NextDependsOn]_vars

\* the names a dependency stands for: none when its selector fails
NamesOf(project, d) ==
    IF d.Name = S("*") THEN {S("*")}
    ELSE IF AllResolve(Selectees(project.Tasks), ParseSelector(d.Name))
    THEN Selected(Selectees(project.Tasks), ParseSelector(d.Name))
    ELSE {}

\* the variants a dependency stands for: the empty variant without a variant
\* selector, none when the selector fails
VariantsOf(project, d) ==
    IF d.Variant = <<>> THEN {<<>>}
    ELSE IF DOMAIN d.Variant[1].matrixSelector # {}
    THEN IF DefEvaluates(project.Axes, d.Variant[1].matrixSelector)
         THEN {project.BuildVariants[i].Name :
                  i \in {j \in DOMAIN project.BuildVariants :
                      /\ DOMAIN project.BuildVariants[j].matrixVal # {}
                      /\ ContainedIn(project.BuildVariants[j].matrixVal,
                             EvaluatedDef(project.Axes, d.Variant[1].matrixSelector))}}
         ELSE {}
    ELSE IF AllResolve(Selectees(project.BuildVariants), ParseSelector(d.Variant[1].stringSelector))
    THEN Selected(Selectees(project.BuildVariants), ParseSelector(d.Variant[1].stringSelector))
    ELSE {}

\* the (variant, name) pairs a dependency expands to
PairsOf(project, d) ==
    {<<v, n>> : v \in VariantsOf(project, d), n \in NamesOf(project, d)}

\* the first dependency of the list that expands to the pair
FirstWith(project, list, p) ==
    CHOOSE k \in DOMAIN list :
        /\ p \in PairsOf(project, list[k])
        /\ \A l \in 1..(k - 1) : p \notin PairsOf(project, list[l])

\* two dependencies of the list expand to the pair and differ in status or
\* patch_optional
Conflicting(project, list, p) ==
    \E k, l \in DOMAIN list :
        /\ k < l
        /\ p \in PairsOf(project, list[k]) \cap PairsOf(project, list[l])
        /\ \/ list[k].Status # list[l].Status
           \/ list[k].PatchOptional # list[l].PatchOptional

ConflictErrors(errList) ==
    {i \in DOMAIN errList : errList[i].kind = "conflicting definitions of dependency"}

\* C3: the list evaluateDependsOn emits never holds two entries with the
\* same (variant, name) pair: every pair some dependency expands to is
\* emitted once, with the status and patch_optional of the first dependency
\* that expands to it. A 'conflicting definitions of dependency' error is
\* reported for a name exactly when two dependencies expand to the same pair
\* with that name and differ in status or patch_optional; an identical
\* duplicate is dropped without an error.
C3_FirstDefinitionOnly ==
    pc = "done" =>
        LET all == UNION {PairsOf(pp, deps[k]) : k \in DOMAIN deps}
        IN  /\ \A i, j \in DOMAIN newDeps :
                   i # j => <<newDeps[i].Variant, newDeps[i].Name>>
                                # <<newDeps[j].Variant, newDeps[j].Name>>
            /\ Range(newDeps) =
                   {Dep(p[2], p[1], deps[FirstWith(pp, deps, p)].Status,
                        deps[FirstWith(pp, deps, p)].PatchOptional) : p \in all}
            /\ \A n \in {p[2] : p \in all} :
                   (\E p \in all : p[2] = n /\ Conflicting(pp, deps, p))
                       <=> \E i \in ConflictErrors(depErrs) : depErrs[i].src = n
            /\ \A i \in ConflictErrors(depErrs) : depErrs[i].src \in {p[2] : p \in all}

\* three dependencies: a tag that selects a and b, then a as an identical
\* duplicate, then a with another status; a and b were emitted once, with
\* the first status, and one conflict was reported, for a
C3_Witness ==
    /\ pc = "done"
    /\ deps = <<Dep(TagT, <<>>, <<>>, FALSE), Dep(S("a"), <<>>, <<>>, FALSE),
                Dep(S("a"), <<>>, Failed, FALSE)>>
    /\ newDeps = <<Dep(S("a"), <<>>, <<>>, FALSE), Dep(S("b"), <<>>, <<>>, FALSE)>>
    /\ Len(depErrs) = 1
    /\ depErrs[1].kind = "conflicting definitions of dependency"
    /\ depErrs[1].src = S("a")

\* the errors of selectors that fail to evaluate
SelectorErrorKinds ==
    {"error evaluating task selector", "variant tag selector",
     "variant selector returns no variants", "errors evaluating variant selector"}

\* the dependencies of the list that are named *
Stars(list) == {k \in DOMAIN list : list[k].Name = S("*")}

\* C17: a dependency named * is emitted with the name *, whatever the tasks
\* of the project (even none): once with the empty variant when it has no
\* variant selector, once per selected variant when it has one. When its
\* variant selector fails, one error is reported for it and it emits
\* nothing. The name * is never evaluated as a task selector.
C17_StarIsLiteral ==
    pc = "done" =>
        /\ {newDeps[i].Variant : i \in {j \in DOMAIN newDeps : newDeps[j].Name = S("*")}}
               = UNION {VariantsOf(pp, deps[k]) : k \in Stars(deps)}
        /\ pp.Tasks = <<>> => \A i \in DOMAIN newDeps : newDeps[i].Name = S("*")
        /\ Cardinality({i \in DOMAIN depErrs :
                           depErrs[i].src = S("*") /\ depErrs[i].kind \in SelectorErrorKinds})
               = Cardinality({k \in Stars(deps) : VariantsOf(pp, deps[k]) = {}})
        /\ \A i \in DOMAIN depErrs :
               depErrs[i].src = S("*") => depErrs[i].kind # "error evaluating task selector"

\* in a project without tasks, * on the variants tagged g and * on a variant
\* that does not exist: one * dependency for v, one for w, and one error
C17_Witness ==
    /\ pc = "done"
    /\ pp.Tasks = <<>>
    /\ deps = <<Dep(AllDependencies, StringVariant(TagG), Failed, FALSE),
                Dep(AllDependencies, StringVariant(S("q")), <<>>, FALSE)>>
    /\ newDeps = <<Dep(S("*"), S("v"), Failed, FALSE), Dep(S("*"), S("w"), Failed, FALSE)>>
    /\ Len(depErrs) = 1

(***************************************************************************)
(* translateProject: inputs and the operation                              *)
(***************************************************************************)
\* an entry of a variant's task list
BVTask(name, priority, dependsOn) ==
    [ZeroBVTask EXCEPT !.Name = name, !.Priority = priority, !.DependsOn = dependsOn]

\* the dependencies of task a
TaskDependsPool ==
    {<<>>,
     <<Dep(S("b"), <<>>, <<>>, FALSE)>>,
     <<Dep(TagT, StringVariant(TagG), <<>>, FALSE), Dep(S("b"), StringVariant(S("v")), Failed, FALSE)>>,
     <<Dep(Nope, <<>>, <<>>, FALSE)>>,
     <<Dep(S("b"), MatrixVariant(Def1(S("x"), <<S("1")>>)), <<>>, FALSE)>>,
     <<Dep(AllDependencies, StringVariant(S("w")), <<>>, FALSE)>>}

\* the requirements of task b
TaskRequiresPool ==
    {<<>>,
     <<TaskSelector(S("a"), <<>>), TaskSelector(TagT, StringVariant(S("v")))>>,
     <<TaskSelector(Nope, <<>>)>>}

\* the task lists of a variant
BVTaskLists ==
    {<<BVTask(S("a"), 0, <<>>)>>,
     <<BVTask(Nope, 0, <<>>)>>,
     <<BVTask(TagT, 0, <<>>), BVTask(S("a"), 1, <<>>)>>,
     <<BVTask(S("c"), 0, <<Dep(S("a"), StringVariant(TagG), <<>>, FALSE),
                            Dep(TagT, StringVariant(S("q")), <<>>, FALSE)>>)>>}

\* one variant, v, or two, v and w
VariantLists ==
    {<<[RegularVariants[1] EXCEPT !.Tasks = tv]>> : tv \in BVTaskLists}
    \cup {<<[RegularVariants[1] EXCEPT !.Tasks = tv], [RegularVariants[2] EXCEPT !.Tasks = tw]>> :
             tv \in BVTaskLists, tw \in BVTaskLists}

\* for the cell x = 1: add the task b and remove the task c
SwapRule ==
    [If   |-> <<Def1(S("x"), <<S("1")>>)>>,
     Then |-> [Set |-> <<>>, RemoveTasks |-> <<S("c")>>,
               AddTasks |-> <<[ZeroBVTask EXCEPT !.Name = S("b")]>>]]

\* no matrix, a matrix of two cells, a matrix whose spec does not evaluate,
\* a matrix whose spec lists no value for its axis, a matrix of two cells
\* with a rule that adds and removes tasks
TranslateMatrices ==
    {<<>>,
     <<[ZeroMatrix EXCEPT !.Id = S("m"), !.Spec = Def1(S("x"), <<S("*")>>),
                          !.Tasks = <<TemplateTask>>]>>,
     <<[ZeroMatrix EXCEPT !.Id = S("m"), !.Spec = Def1(S("x"), <<S("9")>>)]>>,
     <<[ZeroMatrix EXCEPT !.Id = S("m"), !.Spec = Def1(S("x"), <<>>)]>>,
     <<[ZeroMatrix EXCEPT !.Id = S("m"), !.Spec = Def1(S("x"), <<S("*")>>),
                          !.Tasks = <<[ZeroBVTask EXCEPT !.Name = S("c")]>>,
                          !.Rules = <<SwapRule>>]>>}

Projects ==
    {[Identifier    |-> S("p"),
      Tasks         |-> <<Task(S("a"), <<S("t")>>, d, <<>>), Task(S("b"), <<S("t")>>, <<>>, r),
                          Task(S("c"), <<>>, <<>>, <<>>)>>,
      BuildVariants |-> bvs,
      Axes          |-> <<AxisX>>,
      matrices      |-> ms] :
        d \in TaskDependsPool, r \in TaskRequiresPool, bvs \in VariantLists,
        ms \in TranslateMatrices}

InitTranslate ==
    /\ pc = "start"
    /\ pp \in Projects
    /\ proj = <<>>
    /\ evalErrs = <<>>
    /\ ExceptTranslateIdle

\* proj, evalErrs := translateProject(pp)
TranslateProject ==
    /\ pc = "start"
    /\ \E r \in translateProject(pp) :
        IF r.panic
        THEN /\ pc' = "panic"
             /\ UNCHANGED <<pp, proj, evalErrs>>
        ELSE /\ pc' = "done"
             /\ pp' = r.pp
             /\ proj' = r.proj
             /\ evalErrs' = r.evalErrs
    /\ UNCHANGED exceptTranslate

NextTranslate == TranslateProject

SpecTranslate == InitTranslate /\ [][NextTranslate]_vars

\* the evaluators translateProject evaluates the tasks and variants with
TaskEvaluator(project) == NewParserTaskSelectorEvaluator(project.Tasks)
VariantEvaluator(project) ==
    NewVariantSelectorEvaluator(project.BuildVariants, NewAxisSelectorEvaluator(project.Axes))

\* the errors raised while translating the dependencies and requirements of
\* the tasks, and the task lists of the variants
RaisedByTasks(project) ==
    UNION {UNION {Range(r.errs) : r \in
                      evaluateDependsOn(TaskEvaluator(project), VariantEvaluator(project),
                                        project.Tasks[i].DependsOn)
                      \cup evaluateRequires(TaskEvaluator(project), VariantEvaluator(project),
                                            project.Tasks[i].Requires)} :
           i \in DOMAIN project.Tasks}

RaisedByVariants(project) ==
    UNION {UNION {Range(r.errs) : r \in
                      evaluateBVTasks(TaskEvaluator(project), VariantEvaluator(project),
                                      project.BuildVariants[i].Tasks)} :
           i \in DOMAIN project.BuildVariants}

\* C4: translateProject returns a project, and every error raised while
\* translating the dependencies or requirements of a task, or the task list
\* of a build variant at any position, is in the error list it returns.
C4_AllErrorsReturned ==
    pc = "done" =>
        /\ proj # <<>>
        /\ RaisedByTasks(pp) \subseteq Range(evalErrs)
        /\ RaisedByVariants(pp) \subseteq Range(evalErrs)

\* the dependencies of the tasks and of the variants' tasks of a project
ConcreteDependencies(p) ==
    UNION {Range(p.Tasks[i].DependsOn) : i \in DOMAIN p.Tasks}
    \cup UNION {UNION {Range(p.BuildVariants[i].Tasks[j].DependsOn) :
                           j \in DOMAIN p.BuildVariants[i].Tasks} :
                i \in DOMAIN p.BuildVariants}

\* C5: in the project translateProject returns, every dependency whose name
\* is not * has the name of an intermediate task, and every dependency with
\* a non-empty variant has the name of a build variant of the project,
\* regular or synthesized from a matrix.
C5_DependenciesResolve ==
    pc = "done" =>
        \A d \in ConcreteDependencies(proj[1]) :
            /\ d.Name # S("*") => \E i \in DOMAIN pp.Tasks : pp.Tasks[i].Name = d.Name
            /\ d.Variant # <<>> =>
                   \E i \in DOMAIN proj[1].BuildVariants : proj[1].BuildVariants[i].Name = d.Variant

\* task a depends on task b of a variant synthesized from a matrix, and a variant's task depends on a task of the variants v and w
C5_Witness ==
    /\ pc = "done"
    /\ \E d \in Range(proj[1].Tasks[1].DependsOn) :
           /\ d.Name = S("b")
           /\ \E i \in DOMAIN pp.BuildVariants :
                  /\ pp.BuildVariants[i].matrixId = S("m")
                  /\ pp.BuildVariants[i].Name = d.Variant
    /\ \E i \in DOMAIN proj[1].BuildVariants : \E j \in DOMAIN proj[1].BuildVariants[i].Tasks :
           {d.Variant : d \in Range(proj[1].BuildVariants[i].Tasks[j].DependsOn)} = {S("v"), S("w")}

\* the names of the tasks of the variant the project returned has for the
\* i-th intermediate variant
FinalTaskNames(i) ==
    {proj[1].BuildVariants[i].Tasks[t].Name : t \in DOMAIN proj[1].BuildVariants[i].Tasks}

\* C25: the variant translated from a matrix variant that carries add_tasks
\* or remove_tasks rules has a task for the expansion of every add_tasks
\* entry and no task named by a remove_tasks entry
C25_DeferredRulesApplied ==
    pc = "done" =>
        \A i \in DOMAIN pp.BuildVariants :
            \A k \in DOMAIN pp.BuildVariants[i].matrixRules :
                /\ \A j \in DOMAIN pp.BuildVariants[i].matrixRules[k].AddTasks :
                       ExpandString(pp.BuildVariants[i].Expansions,
                                    pp.BuildVariants[i].matrixRules[k].AddTasks[j].Name).val
                           \in FinalTaskNames(i)
                /\ \A j \in DOMAIN pp.BuildVariants[i].matrixRules[k].RemoveTasks :
                       pp.BuildVariants[i].matrixRules[k].RemoveTasks[j] \notin FinalTaskNames(i)

(***************************************************************************)
(* evaluateRequires: inputs and the operation                              *)
(***************************************************************************)
MaxReqs == 3

RequirementPool ==
    {TaskSelector(S("a"), <<>>),
     TaskSelector(TagT, <<>>),
     TaskSelector(S("*"), <<>>),
     TaskSelector(S("b"), StringVariant(S("v"))),
     TaskSelector(TagT, StringVariant(TagG)),
     TaskSelector(Nope, <<>>),
     TaskSelector(S("a"), StringVariant(S("q"))),
     TaskSelector(S("a"), MatrixVariant(Def1(S("x"), <<S("1")>>))),
     TaskSelector(TagT, MatrixVariant(Def1(S("x"), <<S("*")>>))),
     TaskSelector(S("b"), MatrixVariant(Def1(S("x"), <<S("9")>>)))}

InitRequires ==
    /\ pc = "start"
    /\ pp = DependsProject
    /\ reqs \in UNION {[1..n -> RequirementPool] : n \in 0..MaxReqs}
    /\ newReqs = <<>>
    /\ reqErrs = <<>>
    /\ ExceptRequiresIdle

\* newReqs, reqErrs := evaluateRequires(tse, vse, reqs)
EvaluateRequires ==
    /\ pc = "start"
    /\ \E r \in evaluateRequires(NewParserTaskSelectorEvaluator(pp.Tasks),
                    NewVariantSelectorEvaluator(pp.BuildVariants,
                        NewAxisSelectorEvaluator(pp.Axes)),
                    reqs) :
        /\ newReqs' = r.val
        /\ reqErrs' = r.errs
    /\ pc' = "done"
    /\ UNCHANGED <<pp, reqs, exceptRequires>>

NextRequires == EvaluateRequires

SpecRequires == InitRequires /\ [][NextRequires]_vars

\* the names a selector string stands for among the tasks: none when it fails
SelectedTasks(project, name) ==
    IF AllResolve(Selectees(project.Tasks), ParseSelector(name))
    THEN Selected(Selectees(project.Tasks), ParseSelector(name))
    ELSE {}

\* the (variant, name) pairs a requirement expands to
RequiredPairs(project, r) ==
    {<<v, n>> : v \in VariantsOf(project, r), n \in SelectedTasks(project, r.Name)}

\* the first requirement of the list that expands to the pair
FirstRequiring(project, list, p) ==
    CHOOSE k \in DOMAIN list :
        /\ p \in RequiredPairs(project, list[k])
        /\ \A l \in 1..(k - 1) : p \notin RequiredPairs(project, list[l])

\* C16: evaluateRequires emits every (variant, name) pair some requirement
\* expands to exactly once, a pair first required by an earlier requirement
\* before a pair first required by a later one, and it reports one error for
\* every requirement whose selectors fail to evaluate and no other error.
C16_RequirementsDeduplicated ==
    pc = "done" =>
        /\ \A i, j \in DOMAIN newReqs : newReqs[i] = newReqs[j] => i = j
        /\ {<<newReqs[i].Variant, newReqs[i].Name>> : i \in DOMAIN newReqs}
               = UNION {RequiredPairs(pp, reqs[k]) : k \in DOMAIN reqs}
        /\ \A i, j \in DOMAIN newReqs :
               i < j => FirstRequiring(pp, reqs, <<newReqs[i].Variant, newReqs[i].Name>>)
                            <= FirstRequiring(pp, reqs, <<newReqs[j].Variant, newReqs[j].Name>>)
        /\ \A i \in DOMAIN reqErrs : reqErrs[i].kind \in SelectorErrorKinds
        /\ Len(reqErrs) = Cardinality({k \in DOMAIN reqs : RequiredPairs(pp, reqs[k]) = {}})

\* three requirements, the tag that selects a and b between two requirements
\* of a: a and b were required once each, in this order, without an error
C16_Witness ==
    /\ pc = "done"
    /\ reqs = <<TaskSelector(S("a"), <<>>), TaskSelector(TagT, <<>>), TaskSelector(S("a"), <<>>)>>
    /\ newReqs = <<[Name |-> S("a"), Variant |-> <<>>], [Name |-> S("b"), Variant |-> <<>>]>>
    /\ reqErrs = <<>>

(***************************************************************************)
(* evaluateBVTasks: inputs and the operation                               *)
(***************************************************************************)
MaxEntries == 3

BVTaskPool ==
    {BVTask(S("a"), 0, <<>>),
     BVTask(S("a"), 1, <<>>),
     BVTask(TagT, 0, <<>>),
     BVTask(TagT, 0, <<Dep(S("c"), <<>>, <<>>, FALSE)>>),
     BVTask(S("a"), 0, <<Dep(S("c"), <<>>, <<>>, FALSE), Dep(S("c"), <<>>, <<>>, FALSE)>>),
     [BVTask(S("b"), 0, <<>>) EXCEPT !.Distros = <<S("d")>>],
     BVTask(S("*"), 0, <<>>),
     BVTask(Nope, 0, <<>>),
     BVTask(S("c"), 0, <<Dep(Nope, <<>>, <<>>, FALSE)>>)}

InitBVTasks ==
    /\ pc = "start"
    /\ pp = DependsProject
    /\ variantTasks \in UNION {[1..n -> BVTaskPool] : n \in 0..MaxEntries}
    /\ bvTasks = <<>>
    /\ bvTaskErrs = <<>>
    /\ ExceptBVTasksIdle

\* bvTasks, bvTaskErrs := evaluateBVTasks(tse, vse, variantTasks)
EvaluateBVTasks ==
    /\ pc = "start"
    /\ \E r \in evaluateBVTasks(NewParserTaskSelectorEvaluator(pp.Tasks),
                    NewVariantSelectorEvaluator(pp.BuildVariants,
                        NewAxisSelectorEvaluator(pp.Axes)),
                    variantTasks) :
        /\ bvTasks' = r.val
        /\ bvTaskErrs' = r.errs
    /\ pc' = "done"
    /\ UNCHANGED <<pp, variantTasks, exceptBVTasks>>

NextBVTasks == EvaluateBVTasks

SpecBVTasks == InitBVTasks /\ [][NextBVTasks]_vars

\* the definition an entry expands to for a task name: the entry's fields
\* with its dependencies and requirements evaluated
Definition(project, e, n) ==
    [Name |-> n, Patchable |-> e.Patchable, Priority |-> e.Priority,
     ExecTimeoutSecs |-> e.ExecTimeoutSecs, Stepback |-> e.Stepback, Distros |-> e.Distros,
     DependsOn |-> (CHOOSE r \in evaluateDependsOn(TaskEvaluator(project),
                                     VariantEvaluator(project), e.DependsOn) : TRUE).val,
     Requires  |-> (CHOOSE r \in evaluateRequires(TaskEvaluator(project),
                                     VariantEvaluator(project), e.Requires) : TRUE).val]

\* the first entry of the list that expands to the task name
FirstNaming(project, list, n) ==
    CHOOSE k \in DOMAIN list :
        /\ n \in SelectedTasks(project, list[k].Name)
        /\ \A l \in 1..(k - 1) : n \notin SelectedTasks(project, list[l].Name)

\* C15: the list evaluateBVTasks emits never names a task twice: every task
\* name some entry expands to is emitted once, as the first entry that
\* expands to it defines it. A 'conflicting definitions of build variant
\* tasks' error is reported for a name exactly when two entries expand to it
\* with definitions that differ in some field; identical definitions are
\* emitted once without such an error.
C15_FirstTaskDefinitionOnly ==
    pc = "done" =>
        LET all == UNION {SelectedTasks(pp, variantTasks[k].Name) : k \in DOMAIN variantTasks}
        IN  /\ \A i, j \in DOMAIN bvTasks : bvTasks[i].Name = bvTasks[j].Name => i = j
            /\ Range(bvTasks) =
                   {Definition(pp, variantTasks[FirstNaming(pp, variantTasks, n)], n) : n \in all}
            /\ \A n \in all :
                   (\E k, l \in DOMAIN variantTasks :
                       /\ n \in SelectedTasks(pp, variantTasks[k].Name)
                       /\ n \in SelectedTasks(pp, variantTasks[l].Name)
                       /\ Definition(pp, variantTasks[k], n) # Definition(pp, variantTasks[l], n))
                   <=> \E i \in DOMAIN bvTaskErrs :
                           /\ bvTaskErrs[i].kind = "conflicting definitions of build variant tasks"
                           /\ bvTaskErrs[i].src = n
            /\ \A i \in DOMAIN bvTaskErrs :
                   bvTaskErrs[i].kind = "conflicting definitions of build variant tasks"
                       => bvTaskErrs[i].src \in all

\* three entries: the tag that selects a and b, then a with the same fields,
\* then a with another priority; a and b were emitted once, with the first
\* priority, and one conflict was reported, for a
C15_Witness ==
    /\ pc = "done"
    /\ variantTasks = <<BVTask(TagT, 0, <<>>), BVTask(S("a"), 0, <<>>), BVTask(S("a"), 1, <<>>)>>
    /\ Len(bvTasks) = 2
    /\ bvTasks[1].Name = S("a") /\ bvTasks[1].Priority = 0
    /\ bvTasks[2].Name = S("b")
    /\ Len(bvTaskErrs) = 1
    /\ bvTaskErrs[1].kind = "conflicting definitions of build variant tasks"
    /\ bvTaskErrs[1].src = S("a")

(***************************************************************************)
(* Decoding: YAML nodes and the UnmarshalYAML methods                      *)
(***************************************************************************)
\* a YAML node: a scalar with its text, a mapping with its key-node pairs in
\* document order, or a sequence with its nodes
Scalar(s) == [kind |-> "scalar", str |-> s, pairs |-> <<>>, elems |-> <<>>]
Mapping(pairs) == [kind |-> "map", str |-> <<>>, pairs |-> pairs, elems |-> <<>>]
Sequence(elems) == [kind |-> "seq", str |-> <<>>, pairs |-> <<>>, elems |-> elems]

Has(n, key) == \E i \in DOMAIN n.pairs : n.pairs[i][1] = key

\* the node under the key (the last one, if the key is repeated)
Get(n, key) ==
    n.pairs[CHOOSE i \in DOMAIN n.pairs :
                /\ n.pairs[i][1] = key
                /\ \A j \in DOMAIN n.pairs : n.pairs[j][1] = key => j <= i][2]

True == <<"t", "r", "u", "e">>
False == <<"f", "a", "l", "s", "e">>

\* unmarshal(&s) for a string s: only a scalar decodes into a string
unmarshalString(n) == IF n.kind = "scalar" THEN Ok(n.str) ELSE Err(<<>>, "cannot unmarshal")

\* unmarshal(&b) for a bool b
unmarshalBool(n) ==
    IF n.kind = "scalar" /\ n.str \in {True, False} THEN Ok(n.str = True)
    ELSE Err(FALSE, "cannot unmarshal")

\* unmarshal(&slice) for a []string
unmarshalStrings(n) ==
    IF n.kind = "seq" /\ \A i \in DOMAIN n.elems : n.elems[i].kind = "scalar"
    THEN Ok([i \in DOMAIN n.elems |-> n.elems[i].str])
    ELSE Err(<<>>, "cannot unmarshal")

\* parserStringSlice.UnmarshalYAML
unmarshalStringSlice(n) ==
    IF unmarshalString(n).err = Nil THEN Ok(<<unmarshalString(n).val>>)
    ELSE unmarshalStrings(n)

\* the field of a struct: zero when the mapping has no such key, otherwise
\* what the node under the key decodes to
Field(n, key, zero, decodedNode) == IF Has(n, key) THEN decodedNode ELSE Ok(zero)

\* unmarshal(&md) for a matrixDefinition, a map of string slices
unmarshalMatrixDefinition(n) ==
    IF n.kind # "map" THEN Err(<<>>, "cannot unmarshal")
    ELSE IF \E i \in DOMAIN n.pairs : unmarshalStringSlice(n.pairs[i][2]).err # Nil
    THEN Err(<<>>, "cannot unmarshal")
    ELSE Ok([a \in {S(n.pairs[i][1]) : i \in DOMAIN n.pairs} |->
                unmarshalStringSlice(Get(n, a[1])).val])

\* variantSelector.UnmarshalYAML once the string attempt has failed or has
\* given the empty string: md is what the node decodes to as a definition
withDefinition(md) ==
    IF md.err # Nil THEN Err(<<>>, md.err)
    ELSE IF DOMAIN md.val = {} THEN Err(<<>>, "variant selector must not be empty")
    ELSE Ok(<<[stringSelector |-> <<>>, matrixSelector |-> md.val]>>)

\* variantSelector.UnmarshalYAML, for a field of type *variantSelector
unmarshalVariantSelector(n) ==
    IF unmarshalString(n).err = Nil /\ unmarshalString(n).val # <<>>
    THEN Ok(<<[stringSelector |-> unmarshalString(n).val, matrixSelector |-> <<>>]>>)
    ELSE withDefinition(unmarshalMatrixDefinition(n))

\* a struct from the results of its fields
taskSelectorOf(name, var) ==
    IF name.err # Nil THEN Err(TaskSelector(<<>>, <<>>), name.err)
    ELSE IF var.err # Nil THEN Err(TaskSelector(<<>>, <<>>), var.err)
    ELSE Ok(TaskSelector(name.val, var.val))

\* unmarshal(&tsc) for the copy type of TaskSelector
unmarshalTaskSelectorCopy(n) ==
    IF n.kind # "map" THEN Err(TaskSelector(<<>>, <<>>), "cannot unmarshal")
    ELSE taskSelectorOf(Field(n, "name", <<>>, unmarshalString(Get(n, "name"))),
                        Field(n, "variant", <<>>, unmarshalVariantSelector(Get(n, "variant"))))

\* TaskSelector.UnmarshalYAML after the string attempt: tsc is the copy
withTaskSelectorCopy(tsc) ==
    IF tsc.err # Nil THEN tsc
    ELSE IF tsc.val.Name = <<>> THEN Err(TaskSelector(<<>>, <<>>), "task selector must have a name")
    ELSE tsc

\* the bug: a selector without a name is accepted
unmarshalTaskSelectorNamelessMutant(n) ==
    IF unmarshalString(n).err = Nil THEN Ok(TaskSelector(unmarshalString(n).val, <<>>))
    ELSE unmarshalTaskSelectorCopy(n)

\* TaskSelector.UnmarshalYAML
unmarshalTaskSelector(n) ==
    IF unmarshalString(n).err = Nil /\ unmarshalString(n).val # <<>>
    THEN Ok(TaskSelector(unmarshalString(n).val, <<>>))
    ELSE withTaskSelectorCopy(unmarshalTaskSelectorCopy(n))

\* the bug: a single entry is not accepted in place of a list
singleOrSliceListOnlyMutant(n, single, each) ==
    IF n.kind # "seq" THEN Err(<<>>, "cannot unmarshal")
    ELSE IF \E i \in DOMAIN each : each[i].err # Nil
    THEN Err(<<>>, "cannot unmarshal")
    ELSE Ok([i \in DOMAIN each |-> each[i].val])

\* the single attempt and the slice attempt of the UnmarshalYAML of a list
\* type: single and each are what the node and its elements decode to
singleOrSlice(n, single, each) ==
    IF single.err = Nil THEN Ok(<<single.val>>)
    ELSE IF n.kind # "seq" THEN Err(<<>>, "cannot unmarshal")
    ELSE IF \E i \in DOMAIN each : each[i].err # Nil
    THEN Err(<<>>, each[CHOOSE i \in DOMAIN each : each[i].err # Nil].err)
    ELSE Ok([i \in DOMAIN each |-> each[i].val])

\* TaskSelectors.UnmarshalYAML
unmarshalTaskSelectors(n) ==
    singleOrSlice(n, unmarshalTaskSelector(n),
                  [i \in DOMAIN n.elems |-> unmarshalTaskSelector(n.elems[i])])

\* unmarshal(&otherFields) in parserDependency.UnmarshalYAML: its error is
\* ignored, the fields it could decode are used
unmarshalOtherFields(n) ==
    IF n.kind # "map" THEN [Status |-> <<>>, PatchOptional |-> FALSE]
    ELSE [Status        |-> Field(n, "status", <<>>, unmarshalString(Get(n, "status"))).val,
          PatchOptional |-> Field(n, "patch_optional", FALSE,
                                  unmarshalBool(Get(n, "patch_optional"))).val]

\* parserDependency.UnmarshalYAML after its embedded selector
withOtherFields(ts, other) ==
    IF ts.err # Nil THEN Err(Dep(<<>>, <<>>, <<>>, FALSE), ts.err)
    ELSE Ok(Dep(ts.val.Name, ts.val.Variant, other.Status, other.PatchOptional))

\* parserDependency.UnmarshalYAML
unmarshalDependency(n) == withOtherFields(unmarshalTaskSelector(n), unmarshalOtherFields(n))

\* parserDependencies.UnmarshalYAML
unmarshalDependencies(n) ==
    singleOrSlice(n, unmarshalDependency(n),
                  [i \in DOMAIN n.elems |-> unmarshalDependency(n.elems[i])])

\* the copy type of parserBVTask from the results of its fields
bvTaskOf(name, dependsOn, requires, distros, runOn) ==
    IF name.err # Nil \/ dependsOn.err # Nil \/ requires.err # Nil \/ distros.err # Nil \/ runOn.err # Nil
    THEN Err(ZeroBVTask, "cannot unmarshal")
    ELSE Ok([ZeroBVTask EXCEPT !.Name = name.val, !.DependsOn = dependsOn.val,
                               !.Requires = requires.val, !.Distros = distros.val,
                               !.RunOn = runOn.val])

\* unmarshal(&copy) for the copy type of parserBVTask
unmarshalBVTaskCopy(n) ==
    IF n.kind # "map" THEN Err(ZeroBVTask, "cannot unmarshal")
    ELSE bvTaskOf(Field(n, "name", <<>>, unmarshalString(Get(n, "name"))),
                  Field(n, "depends_on", <<>>, unmarshalDependencies(Get(n, "depends_on"))),
                  Field(n, "requires", <<>>, unmarshalTaskSelectors(Get(n, "requires"))),
                  Field(n, "distros", <<>>, unmarshalStringSlice(Get(n, "distros"))),
                  Field(n, "run_on", <<>>, unmarshalStringSlice(Get(n, "run_on"))))

\* the bug: run_on is kept where it was written
withBVTaskCopyKeepRunOnMutant(copy) ==
    IF copy.err # Nil THEN copy
    ELSE IF copy.val.Name = <<>> THEN Err(ZeroBVTask, "task selector must have a name")
    ELSE IF Len(copy.val.RunOn) > 0 /\ Len(copy.val.Distros) > 0
    THEN Err(ZeroBVTask, "cannot use both 'run_on' and 'distros' fields")
    ELSE copy

\* parserBVTask.UnmarshalYAML after the string attempt: the name check and
\* the aliasing of run_on to distros
withBVTaskCopy(copy) ==
    IF copy.err # Nil THEN copy
    ELSE IF copy.val.Name = <<>> THEN Err(ZeroBVTask, "task selector must have a name")
    ELSE IF Len(copy.val.RunOn) > 0
    THEN IF Len(copy.val.Distros) > 0
         THEN Err(ZeroBVTask, "cannot use both 'run_on' and 'distros' fields")
         ELSE Ok([copy.val EXCEPT !.Distros = copy.val.RunOn, !.RunOn = <<>>])
    ELSE copy

\* parserBVTask.UnmarshalYAML
unmarshalBVTask(n) ==
    IF unmarshalString(n).err = Nil /\ unmarshalString(n).val # <<>>
    THEN Ok([ZeroBVTask EXCEPT !.Name = unmarshalString(n).val])
    ELSE withBVTaskCopy(unmarshalBVTaskCopy(n))

\* parserBVTasks.UnmarshalYAML
unmarshalBVTasks(n) ==
    singleOrSlice(n, unmarshalBVTask(n),
                  [i \in DOMAIN n.elems |-> unmarshalBVTask(n.elems[i])])

\* the decoding of a node at one of the polymorphic positions
unmarshalAs(at, n) ==
    CASE at = "TaskSelector"       -> unmarshalTaskSelector(n)
      [] at = "TaskSelectors"      -> unmarshalTaskSelectors(n)
      [] at = "parserDependency"   -> unmarshalDependency(n)
      [] at = "parserDependencies" -> unmarshalDependencies(n)
      [] at = "parserBVTask"       -> unmarshalBVTask(n)
      [] at = "parserBVTasks"      -> unmarshalBVTasks(n)
      [] at = "parserStringSlice"  -> unmarshalStringSlice(n)

\* unmarshal(&list) for a slice whose elements decode to each
unmarshalSlice(n, each) ==
    IF n.kind # "seq" THEN Err(<<>>, "cannot unmarshal")
    ELSE IF \E i \in DOMAIN each : each[i].err # Nil
    THEN Err(<<>>, each[CHOOSE i \in DOMAIN each : each[i].err # Nil].err)
    ELSE Ok([i \in DOMAIN each |-> each[i].val])

\* a parserTask from the results of its fields
taskOf(name, dependsOn, requires, tags) ==
    IF name.err # Nil \/ dependsOn.err # Nil \/ requires.err # Nil \/ tags.err # Nil
    THEN Err(Task(<<>>, <<>>, <<>>, <<>>), "cannot unmarshal")
    ELSE Ok(Task(name.val, tags.val, dependsOn.val, requires.val))

\* the decoding of an element of the tasks list
unmarshalTask(n) ==
    IF n.kind # "map" THEN Err(Task(<<>>, <<>>, <<>>, <<>>), "cannot unmarshal")
    ELSE taskOf(Field(n, "name", <<>>, unmarshalString(Get(n, "name"))),
                Field(n, "depends_on", <<>>, unmarshalDependencies(Get(n, "depends_on"))),
                Field(n, "requires", <<>>, unmarshalTaskSelectors(Get(n, "requires"))),
                Field(n, "tags", <<>>, unmarshalStringSlice(Get(n, "tags"))))

\* a matrix from the results of its fields
matrixOf(id, spec, tasks) ==
    IF id.err # Nil \/ spec.err # Nil \/ tasks.err # Nil THEN Err(ZeroMatrix, "cannot unmarshal")
    ELSE Ok([ZeroMatrix EXCEPT !.Id = id.val, !.Spec = spec.val, !.Tasks = tasks.val])

\* unmarshal(&m) for a matrix
unmarshalMatrix(n) ==
    IF n.kind # "map" THEN Err(ZeroMatrix, "cannot unmarshal")
    ELSE matrixOf(Field(n, "matrix_name", <<>>, unmarshalString(Get(n, "matrix_name"))),
                  Field(n, "matrix_spec", <<>>, unmarshalMatrixDefinition(Get(n, "matrix_spec"))),
                  Field(n, "tasks", <<>>, unmarshalBVTasks(Get(n, "tasks"))))

\* an entry of the decoded variant list: a variant, or the matrix that the
\* variant points to
DecodedBV(bv, m) == [bv |-> bv, matrix |-> m]

\* the copy type of parserBV from the results of its fields
bvOf(name, tags, tasks) ==
    IF name.err # Nil \/ tags.err # Nil \/ tasks.err # Nil
    THEN Err(DecodedBV(ZeroBV, <<>>), "cannot unmarshal")
    ELSE Ok(DecodedBV([ZeroBV EXCEPT !.Name = name.val, !.Tags = tags.val,
                                     !.Tasks = tasks.val], <<>>))

\* unmarshal(&bv) for the copy type of parserBV
unmarshalBVCopy(n) ==
    IF n.kind # "map" THEN Err(DecodedBV(ZeroBV, <<>>), "cannot unmarshal")
    ELSE bvOf(Field(n, "name", <<>>, unmarshalString(Get(n, "name"))),
              Field(n, "tags", <<>>, unmarshalStringSlice(Get(n, "tags"))),
              Field(n, "tasks", <<>>, unmarshalBVTasks(Get(n, "tasks"))))

\* parserBV.UnmarshalYAML after the matrix attempt
withBVCopy(bv) ==
    IF bv.err # Nil THEN bv
    ELSE IF bv.val.bv.Name = <<>>
    THEN Err(DecodedBV(ZeroBV, <<>>), "buildvariant must have a name")
    ELSE bv

\* parserBV.UnmarshalYAML
unmarshalBV(n) ==
    IF unmarshalMatrix(n).err = Nil /\ unmarshalMatrix(n).val.Id # <<>>
    THEN Ok(DecodedBV(ZeroBV, <<unmarshalMatrix(n).val>>))
    ELSE withBVCopy(unmarshalBVCopy(n))

\* a parserProject from the results of its fields
projectOf(tasks, bvs) ==
    IF tasks.err # Nil THEN Err(<<>>, tasks.err)
    ELSE IF bvs.err # Nil THEN Err(<<>>, bvs.err)
    ELSE Ok([Identifier |-> <<>>, Tasks |-> tasks.val, BuildVariants |-> bvs.val,
             Axes |-> <<>>, matrices |-> <<>>])

\* a document that is not YAML
NotYAML == [kind |-> "malformed", str |-> <<>>, pairs |-> <<>>, elems |-> <<>>]

\* yaml.Unmarshal(yml, p) for a parserProject p
unmarshalProject(n) ==
    IF n.kind = "malformed" THEN Err(<<>>, "yaml")
    ELSE IF n.kind # "map" THEN Err(<<>>, "cannot unmarshal")
    ELSE projectOf(
             Field(n, "tasks", <<>>,
                   unmarshalSlice(Get(n, "tasks"),
                       [i \in DOMAIN Get(n, "tasks").elems |->
                           unmarshalTask(Get(n, "tasks").elems[i])])),
             Field(n, "buildvariants", <<>>,
                   unmarshalSlice(Get(n, "buildvariants"),
                       [i \in DOMAIN Get(n, "buildvariants").elems |->
                           unmarshalBV(Get(n, "buildvariants").elems[i])])))

\* sieveMatrixVariants
sieveMatrixVariants(bvs) ==
    [regular  |-> [i \in DOMAIN SelectSeq(bvs, LAMBDA e : e.matrix = <<>>) |->
                      SelectSeq(bvs, LAMBDA e : e.matrix = <<>>)[i].bv],
     matrices |-> [i \in DOMAIN SelectSeq(bvs, LAMBDA e : e.matrix # <<>>) |->
                      SelectSeq(bvs, LAMBDA e : e.matrix # <<>>)[i].matrix[1]]]

\* what createIntermediateProject returns: a pointer and the errors
Created(p, errors) == [p |-> p, errs |-> errors]

\* createIntermediateProject once the document is decoded
sieved(p) ==
    IF p.err # Nil THEN Created(<<>>, <<p.err>>)
    ELSE Created(<<[p.val EXCEPT !.BuildVariants = sieveMatrixVariants(p.val.BuildVariants).regular,
                                 !.matrices = sieveMatrixVariants(p.val.BuildVariants).matrices]>>,
                 <<>>)

createIntermediateProject(n) == sieved(unmarshalProject(n))

\* what projectFromYAML returns, with what createIntermediateProject
\* returned to it and whether it called translateProject
Loaded(c, p, errors, called, panic) ==
    [created |-> c, p |-> p, errs |-> errors, translated |-> called, panic |-> panic]

\* projectFromYAML after createIntermediateProject
afterCreate(c) ==
    IF Len(c.errs) > 0 THEN {Loaded(c, <<>>, c.errs, FALSE, FALSE)}
    ELSE {Loaded(c, r.proj, r.evalErrs, TRUE, r.panic) : r \in translateProject(c.p[1])}

projectFromYAML(n) == afterCreate(createIntermediateProject(n))

(***************************************************************************)
(* projectFromYAML: inputs and the operation                               *)
(***************************************************************************)
\* the mapping {name: s} and the pair of a key and its node
Named(s) == Mapping(<<<<"name", Scalar(s)>>>>)
With(n, key, value) == Mapping(n.pairs \o <<<<key, value>>>>)

\* what a document writes under depends_on
DependsOnNodes ==
    {Scalar(S("b")),
     Scalar(<<>>),
     Named(S("b")),
     Mapping(<<<<"status", Scalar(Failed)>>>>),
     With(Named(<<>>), "status", Scalar(Failed)),
     Sequence(<<Scalar(S("b")), Mapping(<<<<"status", Scalar(Failed)>>>>)>>),
     Sequence(<<With(Named(S("b")), "variant", Scalar(S("v"))), Scalar(S("c"))>>),
     Sequence(<<Scalar(<<>>)>>)}

\* what a document writes under requires
RequiresNodes ==
    {Scalar(S("b")),
     Scalar(<<>>),
     Named(S("c")),
     Mapping(<<<<"variant", Scalar(S("v"))>>>>),
     Sequence(<<Scalar(S("b")), Mapping(<<<<"variant", Scalar(S("v"))>>>>)>>),
     Sequence(<<With(Named(S("b")), "variant", Scalar(S("v")))>>)}

\* what a document writes under the tasks of its variant
VariantTasksNodes ==
    {Scalar(S("*")),
     Sequence(<<Scalar(S("a")), With(Named(S("b")), "depends_on", Scalar(<<>>))>>),
     Sequence(<<With(Named(S("a")), "requires", Mapping(<<<<"variant", Scalar(S("v"))>>>>))>>),
     Sequence(<<With(Named(S("a")), "run_on", Scalar(S("d"))), Scalar(S("c"))>>)}

\* the key with its node, or nothing
Optional(key, nodes) == {<<>>} \cup {<<<<key, n>>>> : n \in nodes}

\* the entries of a variant list: the variants v and w, the matrices m and n,
\* a matrix that also has a name, a named entry whose matrix_spec is not a
\* definition, a named entry whose matrix_name is empty, an entry with neither
VariantEntries ==
    {With(Named(S("v")), "tasks", Scalar(S("a"))),
     Named(S("w")),
     Mapping(<<<<"matrix_name", Scalar(S("m"))>>,
               <<"matrix_spec", Mapping(<<<<"x", Scalar(S("1"))>>>>)>>>>),
     Mapping(<<<<"matrix_name", Scalar(S("n"))>>>>),
     Mapping(<<<<"matrix_name", Scalar(S("j"))>>, <<"name", Scalar(S("t"))>>>>),
     Mapping(<<<<"matrix_name", Scalar(S("k"))>>, <<"name", Scalar(S("u"))>>,
               <<"matrix_spec", Scalar(S("1"))>>>>),
     Mapping(<<<<"matrix_name", Scalar(<<>>)>>, <<"name", Scalar(S("z"))>>>>),
     Mapping(<<<<"tasks", Scalar(S("a"))>>>>)}

MaxVariantEntries == 2

\* the documents: tasks a, b and c, where a has the dependencies and the
\* requirements, and the variant v; the same tasks without dependencies and a
\* list of variant entries; a document that is not YAML; a document that is
\* a scalar
Documents ==
    {Mapping(<<
        <<"tasks", Sequence(<<Mapping(Named(S("a")).pairs \o d \o r), Named(S("b")),
                              Named(S("c"))>>)>>,
        <<"buildvariants", Sequence(<<With(Named(S("v")), "tasks", t)>>)>> >>) :
        d \in Optional("depends_on", DependsOnNodes),
        r \in Optional("requires", RequiresNodes),
        t \in VariantTasksNodes}
    \cup {Mapping(<<
        <<"tasks", Sequence(<<Named(S("a")), Named(S("b")), Named(S("c"))>>)>>,
        <<"buildvariants", Sequence(es)>> >>) :
        es \in UNION {[1..n -> VariantEntries] : n \in 0..MaxVariantEntries}}
    \cup {NotYAML, Scalar(S("a"))}

InitLoad ==
    /\ pc = "start"
    /\ yml \in Documents
    /\ created = Created(<<>>, <<>>)
    /\ loaded = <<>>
    /\ loadErrs = <<>>
    /\ translated = FALSE
    /\ ExceptLoadIdle

\* loaded, loadErrs := projectFromYAML(yml)
ProjectFromYAML ==
    /\ pc = "start"
    /\ \E r \in projectFromYAML(yml) :
        IF r.panic
        THEN /\ pc' = "panic"
             /\ created' = r.created
             /\ UNCHANGED <<loaded, loadErrs, translated>>
        ELSE /\ pc' = "done"
             /\ created' = r.created
             /\ loaded' = r.p
             /\ loadErrs' = r.errs
             /\ translated' = r.translated
    /\ UNCHANGED <<yml, exceptLoad>>

NextLoad == ProjectFromYAML

SpecLoad == InitLoad /\ [][NextLoad]_vars

\* the entries a node lists: its elements, or itself
Entries(n) == IF n.kind = "seq" THEN {n.elems[i] : i \in DOMAIN n.elems} ELSE {n}

\* an entry written without a name: the empty scalar, or an object whose
\* name is absent or empty
Nameless(e) ==
    \/ e.kind = "scalar" /\ e.str = <<>>
    \/ e.kind = "map" /\ (Has(e, "name") => Get(e, "name").str = <<>>)

\* the nodes written under depends_on or requires in a task or variant task
SelectorNodes(holder) ==
    {Get(holder, key) : key \in {k \in {"depends_on", "requires"} : Has(holder, k)}}

\* the tasks of a document and the object-form tasks of its variants
Holders(doc) ==
    {doc.pairs[i][2].elems[j] : i \in {1}, j \in DOMAIN doc.pairs[1][2].elems}
    \cup {e \in UNION {Entries(Get(v, "tasks")) :
                           v \in {w \in Entries(doc.pairs[2][2]) : Has(w, "tasks")}} :
             e.kind = "map"}

\* a document with a dependency or requirement entry without a name
HasNamelessEntry(doc) ==
    /\ doc.kind = "map"
    /\ \E h \in Holders(doc) : \E n \in SelectorNodes(h) : \E e \in Entries(n) : Nameless(e)

\* C18: when the document is malformed or has a dependency or requirement
\* entry without a name, createIntermediateProject returns no project and
\* exactly one error, and projectFromYAML returns no project and has not
\* called translateProject
C18_DecodeFailureStopsLoading ==
    pc = "done" /\ (yml.kind = "malformed" \/ HasNamelessEntry(yml)) =>
        /\ created.p = <<>>
        /\ Len(created.errs) = 1
        /\ loaded = <<>>
        /\ ~translated

\* a document with its nameless object-form dependency has been refused
C18_Witness ==
    /\ pc = "done"
    /\ HasNamelessEntry(yml)
    /\ \E h \in Holders(yml) : \E n \in SelectorNodes(h) : n.kind = "map" /\ Nameless(n)
    /\ created.p = <<>>
    /\ loaded = <<>>

\* the entries written under buildvariants, in document order
WrittenVariants == Get(yml, "buildvariants").elems

\* an entry that carries a non-empty matrix_name
CarriesMatrixName(e) == Has(e, "matrix_name") /\ Get(e, "matrix_name").str # <<>>

\* what the entries give under a key, in their order
Under(es, key) == [i \in DOMAIN es |-> IF Has(es[i], key) THEN Get(es[i], key).str ELSE <<>>]

\* C21: after createIntermediateProject succeeds, the entries that carry a
\* non-empty matrix_name are the matrices list, in input order, the other
\* entries are BuildVariants, in input order and each with a non-empty
\* name, and no entry is in both or in neither
C21_VariantsPartitioned ==
    pc # "start" /\ created.p # <<>> =>
        /\ [i \in DOMAIN created.p[1].matrices |-> created.p[1].matrices[i].Id]
               = Under(SelectSeq(WrittenVariants, CarriesMatrixName), "matrix_name")
        /\ [i \in DOMAIN created.p[1].BuildVariants |-> created.p[1].BuildVariants[i].Name]
               = Under(SelectSeq(WrittenVariants, LAMBDA e : ~CarriesMatrixName(e)), "name")
        /\ \A i \in DOMAIN created.p[1].BuildVariants :
               created.p[1].BuildVariants[i].Name # <<>>
        /\ Len(created.p[1].matrices) + Len(created.p[1].BuildVariants) = Len(WrittenVariants)

(***************************************************************************)
(* UnmarshalYAML: inputs and the operation                                 *)
(***************************************************************************)
Positions ==
    {"TaskSelector", "TaskSelectors", "parserDependency", "parserDependencies",
     "parserBVTask", "parserBVTasks", "parserStringSlice"}

\* scalars and objects: names, selector fields, dependency fields and the
\* distro fields of a variant task, set and not set
SingleNodes ==
    {Scalar(S("a")),
     Scalar(<<>>),
     Named(S("a")),
     Named(<<>>),
     Mapping(<<<<"status", Scalar(Failed)>>>>),
     With(Named(S("a")), "status", Scalar(Failed)),
     With(Named(S("a")), "patch_optional", Scalar(True)),
     With(Named(S("a")), "variant", Scalar(S("v"))),
     With(Named(S("a")), "variant", Mapping(<<<<"x", Scalar(S("1"))>>>>)),
     With(Named(S("a")), "variant", Mapping(<<>>)),
     With(Named(S("a")), "run_on", Scalar(S("d"))),
     With(Named(S("a")), "run_on", Sequence(<<Scalar(S("d")), Scalar(S("e"))>>)),
     With(Named(S("a")), "distros", Scalar(S("d"))),
     With(With(Named(S("a")), "run_on", Scalar(S("d"))), "distros", Scalar(S("e"))),
     With(With(Named(S("a")), "distros", Sequence(<<Scalar(S("e"))>>)), "run_on",
          Sequence(<<Scalar(S("d"))>>)),
     With(With(Named(S("a")), "run_on", Sequence(<<>>)), "distros", Scalar(S("e"))),
     With(With(Named(S("a")), "run_on", Scalar(S("d"))), "distros", Sequence(<<>>)),
     Mapping(<<<<"run_on", Scalar(S("d"))>>>>),
     With(Named(S("a")), "depends_on", Scalar(S("b"))),
     With(Named(S("a")), "depends_on", Named(S("b"))),
     With(Named(S("a")), "requires", Sequence(<<Scalar(S("b"))>>)),
     With(Named(S("a")), "requires", Scalar(<<>>))}

\* a single node, the list of it, and lists of none and of two
Nodes ==
    SingleNodes
    \cup {Sequence(<<n>>) : n \in SingleNodes}
    \cup {Sequence(<<>>),
          Sequence(<<Scalar(S("a")), Named(S("b"))>>),
          Sequence(<<Scalar(S("a")), Scalar(<<>>)>>),
          Sequence(<<With(Named(S("a")), "run_on", Scalar(S("d"))), Scalar(S("b"))>>),
          Sequence(<<Scalar(S("b")),
                     With(With(Named(S("a")), "run_on", Scalar(S("d"))), "distros",
                          Scalar(S("e")))>>)}

InitUnmarshal ==
    /\ pc = "start"
    /\ position \in Positions
    /\ node \in Nodes
    /\ decoded = Ok(<<>>)
    /\ ExceptUnmarshalIdle

\* decoded := the value the UnmarshalYAML of the position's type leaves and
\* the error it returns
Unmarshal ==
    /\ pc = "start"
    /\ pc' = "done"
    /\ decoded' = unmarshalAs(position, node)
    /\ UNCHANGED <<position, node, exceptUnmarshal>>

NextUnmarshal == Unmarshal

SpecUnmarshal == InitUnmarshal /\ [][NextUnmarshal]_vars

\* the list a node gives for a key, read without the decoder: the scalar
\* alone or the elements
Listed(n, key) ==
    IF ~Has(n, key) THEN <<>>
    ELSE IF Get(n, key).kind = "scalar" THEN <<Get(n, key).str>>
    ELSE [i \in DOMAIN Get(n, key).elems |-> Get(n, key).elems[i].str]

\* the tasks decoded at a variant-task position
DecodedTasks == IF position = "parserBVTask" THEN <<decoded.val>> ELSE decoded.val

\* an object-form variant task that has a name
NamedTask(n) == n.kind = "map" /\ Has(n, "name") /\ Get(n, "name").str # <<>>

SelectorPositions == Positions \ {"parserStringSlice"}
ListPositions == {"TaskSelectors", "parserDependencies", "parserBVTasks", "parserStringSlice"}

Bare(n) == n.kind = "scalar" /\ n.str # <<>>

\* the entry named s with every other field at its zero value
ZeroEntry(at, s) ==
    CASE at \in {"TaskSelector", "TaskSelectors"} -> TaskSelector(s, <<>>)
      [] at \in {"parserDependency", "parserDependencies"} -> Dep(s, <<>>, <<>>, FALSE)
      [] at \in {"parserBVTask", "parserBVTasks"} -> [ZeroBVTask EXCEPT !.Name = s]

\* a list with its bare strings written as objects
ObjectForm(n) ==
    Sequence([i \in DOMAIN n.elems |->
                 IF Bare(n.elems[i]) THEN Named(n.elems[i].str) ELSE n.elems[i]])

\* both fail, or both succeed with the same value
SameDecoding(a, b) ==
    /\ (a.err = Nil) = (b.err = Nil)
    /\ a.err = Nil => a.val = b.val

\* C20: at every polymorphic position a bare non-empty string s decodes to
\* what the object {name: s} decodes to, the entry named s with every other
\* field zero, also inside a list; and a single scalar or object decodes to
\* what the one-element list of it decodes to
C20_SurfaceFormsNormalized ==
    pc = "done" =>
        /\ position \in SelectorPositions /\ Bare(node) =>
              /\ decoded.err = Nil
              /\ decoded.val = IF position \in ListPositions
                               THEN <<ZeroEntry(position, node.str)>>
                               ELSE ZeroEntry(position, node.str)
              /\ unmarshalAs(position, Named(node.str)) = decoded
        /\ position \in SelectorPositions \cap ListPositions /\ node.kind = "seq" =>
              SameDecoding(unmarshalAs(position, ObjectForm(node)), decoded)
        /\ position \in ListPositions /\ node.kind \in {"scalar", "map"} =>
              SameDecoding(unmarshalAs(position, Sequence(<<node>>)), decoded)

\* a single object has been decoded into a list of one entry
C20_Witness ==
    /\ pc = "done"
    /\ position \in ListPositions
    /\ node.kind = "map"
    /\ decoded.err = Nil
    /\ Len(decoded.val) = 1

=============================================================================
